---- MODULE Spec2Model ----
(***************************************************************************)
(* DSR-AI-CULLING: the gallery controller (GalleryView) of                 *)
(* src/final_core_stress_test.py with its scanner and analysis workers.    *)
(*                                                                         *)
(* The source file holds three gallery controllers, one per section:       *)
(*   "gemini"  lines   78..1414  (gallery - gemini_prnding.py)             *)
(*   "legacy"  lines 1415..2518  (gallery -1100 line of code.py)           *)
(*   "chatgpt" lines 2519..2799  (gallery -chatgpt-1feb_9.30pm.py)         *)
(* The variable `variant` says which of them runs.  Inside the legacy      *)
(* section apply_decision, handle_ai_result, update_ai_progress and        *)
(* on_ai_finished are defined twice in the class body; Python keeps the    *)
(* later definition, and that is the one modelled as the operation.        *)
(*                                                                         *)
(* Threads: the main (GUI) thread runs the controller's handlers one at a  *)
(* time; every FolderScanner and analysis worker is a thread of its own    *)
(* whose signals reach the controller as queued events (mainq, FIFO).      *)
(*                                                                         *)
(* What the model takes from outside src/:                                 *)
(*   - apply_decision (gemini), perform_undo and perform_redo have no      *)
(*     caller in src/; they are public methods of the widget and are       *)
(*     modelled as operations its owner may call at any time;              *)
(*   - the widget is built with db = None (no DatabaseSync in src/),       *)
(*     except in SpecStore, where a store is attached and `saved` keeps    *)
(*     the arguments of the last save_decision call for each path;         *)
(*   - an analysis result carries 'path' and 'score' only;                 *)
(*   - the burst fields of the gemini records ('tags', 'burst_group') and  *)
(*     sort_images are modelled apart from the controller, in `shots`.     *)
(*                                                                         *)
(* Specifications:                                                         *)
(*   Spec          the gallery controller with its scanners and workers;   *)
(*   SpecCache     ImageCache called by one or by several threads;         *)
(*   SpecScan      one FolderScanner run over the folder "D" (SpecScanFair *)
(*                 with the scanner thread scheduled fairly);              *)
(*   SpecWorker    one analysis worker run, stopped at any moment;         *)
(*   SpecProgress  one analysis worker over a list of up to 11 paths;      *)
(*   SpecLoad      the gallery opening folders that cannot be read;        *)
(*   SpecBurst     burst marking: batches, sorts and threshold changes;    *)
(*   SpecStore     the gallery with a store attached;                      *)
(*   SpecRun       analysis runs of the gemini gallery, threads scheduled  *)
(*                 fairly.                                                 *)
(* Each leaves the variables of the other components as they start.        *)
(***************************************************************************)
EXTENDS Integers, Sequences, FiniteSets, TLC

(***************************************************************************)
(* Bounds of the model.                                                    *)
(***************************************************************************)
\* load_images / nuclear_reset calls in one behaviour
MaxLoads == 2
\* analysis runs started in one behaviour
MaxRuns == 2
\* curator inputs (clicks, keys, menu and button actions) in one behaviour
MaxInputs == 4

(***************************************************************************)
(* Program constants.                                                      *)
(***************************************************************************)
\* GalleryView.__init__: self.ai_threshold = 45
DefaultAiThreshold == 45
\* GalleryView.__init__: self.burst_time_threshold = 0.5, in tenths of a second
DefaultBurstThreshold == 5
\* handle_ai_result (gemini): d.get('score', 0) > 45
GeminiKeepLiteral == 45
\* handle_ai_result (chatgpt): result.get('score',0) >= 80
ChatgptKeepLiteral == 80

Variants == {"gemini", "legacy", "chatgpt"}

\* a scanner that collects one path more per batch
BATCH_SIZE_one_more(v) == IF v = "legacy" THEN 21 ELSE 51

\* FolderScanner.run: BATCH_SIZE (50 in the gemini and chatgpt sections,
\* 20 in the legacy section)
BATCH_SIZE(v) == IF v = "legacy" THEN 20 ELSE 50

\* FolderScanner.run: valid_exts
valid_exts(v) ==
    IF v = "legacy"
    THEN {".jpg", ".jpeg", ".png", ".bmp", ".tiff", ".webp", ".raw", ".arw"}
    ELSE {".jpg", ".jpeg", ".png", ".bmp", ".tiff", ".webp", ".raw", ".arw",
          ".cr2", ".nef"}

(***************************************************************************)
(* The file system the scanners read: two folders, os.scandir order.       *)
(***************************************************************************)
Folders == {"F1", "F2"}

\* raises = "no":      the entry reads without error;
\* raises = "entry":   entry.is_file() raises OSError;
\* raises = "scandir": the enumeration itself fails here (os.scandir, or the
\*                     iterator's next, raises OSError)
Entry(p, f, e) == [path |-> p, is_file |-> f, ext |-> e, raises |-> "no"]

\* scores the AI engine can report
Scores == {45, 80}

\* absent dictionary keys: gemini's on_batch_found creates records with no
\* 'rating', 'color' and 'is_manual' keys
NoRating == -1
NoColor == "missing"

\* "no value" of an optional argument (Python None)
NoneStr == "None"
NoneInt == -1

Statuses == {"pending", "keep", "reject"}
Filters == {"all", "keep"}

(***************************************************************************)
(* Sequence helpers.                                                       *)
(***************************************************************************)
Range(s) == {s[i] : i \in 1..Len(s)}

RECURSIVE SeqOfSet(_)
SeqOfSet(S) ==
    IF S = {} THEN <<>>
    ELSE LET x == CHOOSE y \in S : \A z \in S : y <= z
         IN <<x>> \o SeqOfSet(S \ {x})

\* list.index: position of the first occurrence, 0 when absent (ValueError)
IndexOf(s, x) ==
    IF \E i \in 1..Len(s) : s[i] = x
    THEN CHOOSE i \in 1..Len(s) : s[i] = x /\ \A j \in 1..(i-1) : s[j] # x
    ELSE 0

VARIABLES
    variant,            \* which section's GalleryView runs
    TITANIUM_AVAILABLE, \* whether the import of the core.* stack succeeded
    image_data,         \* self.image_data: list of record dicts
    path_registry,      \* self.path_registry (gemini)
    current_index,      \* self.current_index (0-based as in the code)
    multi_selection,    \* self.multi_selection
    filter_state,       \* self.filter_state
    visible_indices,    \* self.visible_indices (0-based indices)
    undo_stack,         \* self.undo_stack: list of (idxs, states)
    redo_stack,         \* self.redo_stack
    safety_net,         \* SafetyNet's undo journal (core.safety_net)
    auto_advance,       \* self.auto_advance
    ai_threshold,       \* self.ai_threshold (gemini)
    btn_text,           \* self.btn_analyze.text()
    btn_enabled,        \* self.btn_analyze.isEnabled()
    current_folder,     \* self.current_folder
    scanners,           \* every FolderScanner thread started so far
    scanner_worker,     \* self.scanner_worker: index into scanners, 0 = None
    workers,            \* every analysis worker started so far
    ai_worker,          \* self.ai_worker: index into workers, 0 = None
    mainq,              \* queued signal deliveries to the main thread
    epoch,              \* number of load_images / reset calls so far
    origin,             \* per record of image_data: epoch of the scan it came from
    analysed,           \* paths of the current record set that received a result
    inputs,             \* number of curator inputs so far
    last_op,            \* the operation the main thread ran last
    before,             \* image_data before the decision, while the last operation is
                        \* that apply_decision or the perform_undo right after it
    undone,             \* "pending": perform_undo was called and no decision since;
                        \* "decided": the last decision followed such a call
    listing,            \* os.scandir's entries of the folder "D"
    faults,             \* paths whose analysis raises an exception
    cache,              \* ImageCache.cache: the dict, in insertion order
    max_items,          \* ImageCache.max_items
    lock,               \* ImageCache.lock: the caller holding it, 0 = free
    calls,              \* per caller of the cache: the call it is in
    lru,                \* the cached keys, least recently accessed first
    ncalls,             \* number of calls of the cache so far
    threads,            \* number of threads that call the cache
    last,               \* the call of the cache that ended last
    overlapped,         \* two bodies of get / insert / clear were open at once
    shots,              \* image_data's 'path', 'tags' and 'burst_group' (gemini)
    burst_time_threshold, \* self.burst_time_threshold, in tenths of a second
    enable_burst_ai,    \* self.enable_burst_ai
    mtimes,             \* os.path.getmtime of each path, in tenths of a second
    retuned,            \* apply_settings has run
    clock_stall,        \* results a worker emits before time.time() leaves start_time
    db,                 \* self.db is attached (a store was passed to __init__)
    saved               \* per path: the arguments of the last save_decision call

vars == << variant, TITANIUM_AVAILABLE, image_data, path_registry,
           current_index, multi_selection, filter_state, visible_indices,
           undo_stack, redo_stack, safety_net, auto_advance, ai_threshold,
           btn_text, btn_enabled, current_folder, scanners, scanner_worker,
           workers, ai_worker, mainq, epoch, origin, analysed, inputs,
           last_op, before, undone, listing, faults, cache, max_items, lock,
           calls, lru, ncalls, threads, last, overlapped, shots,
           burst_time_threshold, enable_burst_ai, mtimes, retuned,
           clock_stall, db, saved >>

(***************************************************************************)
(* Records of image_data.  Indices are 0-based as in the code: record i of *)
(* the Python list is image_data[i + 1].                                    *)
(***************************************************************************)
Rec(i) == image_data[i + 1]

\* self.db.save_decision(path, status, rating, color): what the store holds
\* for each path is the arguments of the last call for it
save_decision(sv, path, status, rating, color) ==
    [p \in DOMAIN sv \cup {path} |->
        IF p = path
        THEN [status |-> status, rating |-> rating, color |-> color]
        ELSE sv[p]]

\* target.get('rating', 0) and target.get('color')
GetRating(d) == IF d.rating = NoRating THEN 0 ELSE d.rating
GetColor(d) == IF d.color = NoColor THEN NoneStr ELSE d.color

\* apply_decision: if self.db: self.db.save_decision(target['path'],
\* target['status'], target.get('rating', 0), target.get('color'))
SavedDecision_before(sv, d, old) ==
    IF db
    THEN save_decision(sv, old.path, old.status, GetRating(old), GetColor(old))
    ELSE sv
SavedDecision(sv, d, old) ==
    IF db
    THEN save_decision(sv, d.path, d.status, GetRating(d), GetColor(d))
    ELSE sv

\* perform_undo / perform_redo, undo_stack path: after each assignment
\* if self.db: self.db.save_decision(self.image_data[idx]['path'], ...
\* ['status'], ...['rating'], ...['color']); a restored dict without
\* 'rating' or 'color' raises KeyError there
RECURSIVE SavedRestore(_, _, _)
SavedRestore(sv, states, n) ==
    IF n = 0 \/ states = <<>> \/ ~db THEN sv
    ELSE LET d == Head(states) IN
         IF d.rating = NoRating \/ d.color = NoColor THEN sv
         ELSE SavedRestore(save_decision(sv, d.path, d.status, d.rating,
                                         d.color),
                           Tail(states), n - 1)

\* DatabaseSync.fetch_folder_data (not in src/): the map from path to the
\* persisted fields of the record, here what save_decision was last given
fetch_folder_data(sv) == sv

\* on_batch_found (legacy): if img['path'] in saved: img.update(saved[...])
Fetched(img, got) ==
    IF db /\ img.path \in DOMAIN got
    THEN [img EXCEPT !.status = got[img.path].status,
                     !.rating = got[img.path].rating,
                     !.color = got[img.path].color]
    ELSE img

\* on_batch_found: the dict a new path gets.  The gemini section creates it
\* with 'score': 0 and without 'rating', 'color', 'is_manual'; the legacy
\* section with 'rating': 0, 'color': None, 'is_manual': False and without
\* 'score' (read as 0 by .get('score', 0)).
NewItem(v, p) ==
    IF v = "gemini"
    THEN [path |-> p, status |-> "pending", score |-> 0, rating |-> NoRating,
          color |-> NoColor, is_manual |-> FALSE]
    ELSE [path |-> p, status |-> "pending", score |-> 0, rating |-> 0,
          color |-> NoneStr, is_manual |-> FALSE]

PathsOf(data) == {data[i].path : i \in 1..Len(data)}

\* rebuild_grid: the filter test of one record
Matches(v, f, d) ==
    \/ f = "all"
    \/ f = "keep" /\ d.status = "keep"
    \/ f = "reject" /\ d.status = "reject"
    \/ v = "gemini" /\ f = "pending" /\ d.status = "pending"

\* rebuild_grid: visible_indices recomputed from image_data and filter_state
RebuiltIndices(v, f, data) ==
    SeqOfSet({i \in 0..(Len(data) - 1) : Matches(v, f, data[i + 1])})

\* ghost bookkeeping of a main-thread operation: its name; perform_undo and
\* perform_redo right after an apply_decision are named
\* "undo_after_decision" and "redo_after_decision"
Op(name) ==
    /\ last_op' = name
    /\ before' = <<>>
    /\ UNCHANGED inputs

\* the same for an operation the curator starts: it counts as an input
Input(name) ==
    /\ inputs < MaxInputs
    /\ inputs' = inputs + 1
    /\ last_op' = name
    /\ before' = <<>>

(***************************************************************************)
(* Queued signal deliveries.                                               *)
(***************************************************************************)
BatchEvent(s, ps) ==
    [type |-> "batch_found", src |-> s, paths |-> ps, path |-> NoneStr,
     score |-> 0]
ResultEvent(w, p, sc) ==
    [type |-> "result_ready", src |-> w, paths |-> <<>>, path |-> p,
     score |-> sc]
FinishedEvent(w) ==
    [type |-> "finished_scan", src |-> w, paths |-> <<>>, path |-> NoneStr,
     score |-> 0]

(***************************************************************************)
(* GalleryView.__init__                                                    *)
(***************************************************************************)
GalleryInit ==
    /\ variant \in Variants
    /\ TITANIUM_AVAILABLE \in BOOLEAN
    /\ image_data = <<>>
    /\ path_registry = {}
    /\ current_index = 0
    /\ multi_selection = {}
    /\ filter_state = "all"
    /\ visible_indices = <<>>
    /\ undo_stack = <<>>
    /\ redo_stack = <<>>
    /\ safety_net = <<>>
    /\ auto_advance = TRUE
    /\ ai_threshold = DefaultAiThreshold
    /\ btn_text = "ANALYZE MAGIC"
    /\ btn_enabled = TRUE
    /\ current_folder = NoneStr
    /\ scanners = <<>>
    /\ scanner_worker = 0
    /\ workers = <<>>
    /\ ai_worker = 0
    /\ mainq = <<>>
    /\ epoch = 0
    /\ origin = <<>>
    /\ analysed = {}
    /\ inputs = 0
    /\ last_op = "init"
    /\ before = <<>>
    /\ undone = "no"
    /\ shots = <<>>
    /\ burst_time_threshold = DefaultBurstThreshold
    /\ enable_burst_ai = TRUE
    /\ retuned = FALSE
    /\ saved = << >>

\* the variables only the main thread's handlers write
ctl == << image_data, path_registry, current_index, multi_selection,
          filter_state, visible_indices, undo_stack, redo_stack, safety_net,
          auto_advance, ai_threshold, btn_text, btn_enabled, current_folder,
          scanner_worker, ai_worker, epoch, origin, analysed, inputs,
          last_op, before, undone >>

\* what no handler and no thread of the gallery writes
world == << variant, TITANIUM_AVAILABLE, listing, faults, cache, max_items,
            lock, calls, lru, ncalls, threads, last, overlapped, shots,
            burst_time_threshold, enable_burst_ai, mtimes, retuned,
            clock_stall, db >>

\* the same with the store, which only decisions, undo and redo write
env == << world, saved >>

(***************************************************************************)
(* FolderScanner.run, one step of the scanner thread s.                    *)
(*   pc = "loop":   for entry in entries: if not self._is_running: break   *)
(*   pc = "entry":  the body of the loop for the entry i + 1               *)
(*   pc = "tail":   if batch and self._is_running: emit                    *)
(*   pc = "finish": self.finished.emit()                                   *)
(* The legacy section's scanner has no _is_running flag and no stop().     *)
(* out is the log of what the thread emitted, in order, and of the stop()  *)
(* it received; i is the number of entries whose is_file() it has called,   *)
(* stopped_at that number, the entry in work included, when stop() was     *)
(* called.                                                                 *)
(***************************************************************************)
\* folders os.scandir cannot enumerate: "missing" is no directory
\* (FileNotFoundError), "locked" is a directory that may not be read
\* (PermissionError)
BadFolders == {"missing", "locked"}

\* os.path.isdir(folder_path)
isdir(f) == f # "missing"

\* the folder "D" holds the entries of the variable listing
FolderEntries(f) ==
    IF f = "F1"
    THEN << Entry("a", TRUE, ".jpg"), Entry("b", TRUE, ".jpg") >>
    ELSE IF f = "F2"
    THEN << Entry("c", TRUE, ".jpg"), Entry("d", TRUE, ".txt") >>
    ELSE IF f \in BadFolders
    THEN << [Entry(f, FALSE, "") EXCEPT !.raises = "scandir"] >>
    ELSE listing

Emitted(sig, ps) == [sig |-> sig, paths |-> ps]

NewScanner(f, ep) ==
    [folder |-> f, i |-> 0, batch |-> <<>>, running |-> TRUE, pc |-> "loop",
     epoch |-> ep, out |-> <<>>, stopped_at |-> NoneInt]

\* a flag test that never sees the stop
Cancelled_never(sc) == FALSE

\* not self._is_running (chatgpt: not self._run)
Cancelled(sc) == variant # "legacy" /\ ~sc.running

ScannerLoop(s) ==
    LET sc == scanners[s]
        entries == FolderEntries(sc.folder)
    IN
    /\ sc.pc = "loop"
    /\ IF sc.i >= Len(entries)
       THEN scanners' = [scanners EXCEPT ![s].pc = "tail"]
       ELSE IF entries[sc.i + 1].raises = "scandir"
       THEN \* except Exception as e: logging.error(...)
            scanners' = [scanners EXCEPT ![s].pc = "finish"]
       ELSE IF Cancelled(sc)
       THEN \* if not self._is_running: break
            scanners' = [scanners EXCEPT ![s].pc = "tail"]
       ELSE scanners' = [scanners EXCEPT ![s].pc = "entry"]
    /\ UNCHANGED << env, workers, mainq >>
    /\ UNCHANGED ctl

ScannerEntry(s) ==
    LET sc == scanners[s]
        e == FolderEntries(sc.folder)[sc.i + 1]
    IN
    /\ sc.pc = "entry"
    /\ IF e.raises = "entry"
       THEN \* entry.is_file() raises: except Exception as e: logging.error(...)
            /\ scanners' = [scanners EXCEPT ![s].pc = "finish",
                                            ![s].i = sc.i + 1]
            /\ UNCHANGED mainq
       ELSE LET hit == e.is_file /\ e.ext \in valid_exts(variant)
                b == IF hit THEN Append(sc.batch, e.path) ELSE sc.batch
                full == hit /\ Len(b) >= BATCH_SIZE(variant)
            IN
            /\ scanners' = [scanners EXCEPT
                              ![s].pc = "loop",
                              ![s].i = sc.i + 1,
                              ![s].batch = IF full THEN <<>> ELSE b,
                              ![s].out = IF full
                                         THEN Append(sc.out,
                                                     Emitted("batch_found", b))
                                         ELSE sc.out]
            /\ mainq' = IF full THEN Append(mainq, BatchEvent(s, b))
                        ELSE mainq
    /\ UNCHANGED << env, workers >>
    /\ UNCHANGED ctl

ScannerTail(s) ==
    LET sc == scanners[s]
        emits == sc.batch # <<>> /\ ~Cancelled(sc)
    IN
    /\ sc.pc = "tail"
    /\ mainq' = IF emits THEN Append(mainq, BatchEvent(s, sc.batch))
                ELSE mainq
    /\ scanners' = [scanners EXCEPT
                      ![s].pc = "finish",
                      ![s].out = IF emits
                                 THEN Append(sc.out,
                                             Emitted("batch_found", sc.batch))
                                 ELSE sc.out]
    /\ UNCHANGED << env, workers >>
    /\ UNCHANGED ctl

\* a run that emits finished in the except branch and again at its end
ScannerFinish_twice(s) ==
    /\ scanners[s].pc = "finish"
    /\ scanners' = [scanners EXCEPT
                      ![s].pc = "done",
                      ![s].out = scanners[s].out \o
                                 << Emitted("finished", <<>>),
                                    Emitted("finished", <<>>) >>]
    /\ UNCHANGED << env, workers, mainq >>
    /\ UNCHANGED ctl

\* self.finished.emit(): connected to on_scan_finished in the legacy section
\* only, which changes labels and the progress bar and no controller state
ScannerFinish(s) ==
    /\ scanners[s].pc = "finish"
    /\ scanners' = [scanners EXCEPT
                      ![s].pc = "done",
                      ![s].out = Append(scanners[s].out,
                                        Emitted("finished", <<>>))]
    /\ UNCHANGED << env, workers, mainq >>
    /\ UNCHANGED ctl

\* FolderScanner.stop, called from another thread
ScannerStop(s) ==
    LET sc == scanners[s] IN
    /\ variant # "legacy"
    /\ sc.running
    /\ scanners' = [scanners EXCEPT
                      ![s].running = FALSE,
                      ![s].stopped_at = IF sc.pc = "entry" THEN sc.i + 1
                                        ELSE sc.i,
                      ![s].out = Append(sc.out, Emitted("stop", <<>>))]
    /\ UNCHANGED << env, workers, mainq >>
    /\ UNCHANGED ctl

(***************************************************************************)
(* The analysis worker's run (AIWorker.run; TitaniumWorker.run of          *)
(* test_async_brain.py has the same loop), one step of worker thread w.    *)
(*   pc = "loop":    for i, path in enumerate(self.paths):                 *)
(*                       if not self.is_running: break                     *)
(*   pc = "analyse": the analysis of paths[i], then result_ready.emit      *)
(*   pc = "finish":  self.finished_scan.emit()                             *)
(* connected = FALSE after the legacy load_images disconnected the         *)
(* worker's signals: what it emits from then on reaches no slot.           *)
(***************************************************************************)
NewWorker(ps, conf) ==
    [paths |-> ps, i |-> 0, running |-> TRUE, connected |-> TRUE,
     pc |-> "loop", confirmed |-> conf, kind |-> "AIWorker", out |-> <<>>,
     stopped_at |-> NoneInt]

\* TitaniumWorker(test_files) of test_async_brain.py
NewTitaniumWorker(ps) == [NewWorker(ps, FALSE) EXCEPT !.kind = "TitaniumWorker"]

\* AIWorker.stop: self.is_running = False (TitaniumWorker: is_killed = True).
\* out is the log of what the thread emitted and of the stop it received;
\* i is the number of paths whose analysis has begun, stopped_at that
\* number, the path in work included, when the worker was stopped.
Halted(wk) ==
    [wk EXCEPT !.running = FALSE,
               !.stopped_at = IF wk.pc = "analyse" THEN wk.i + 1 ELSE wk.i,
               !.out = Append(wk.out, Emitted("stop", <<>>))]

WorkerLoop(w) ==
    LET wk == workers[w] IN
    /\ wk.pc = "loop"
    /\ workers' = [workers EXCEPT ![w].pc =
                     IF wk.i < Len(wk.paths) /\ wk.running
                     THEN "analyse" ELSE "finish"]
    /\ UNCHANGED << env, scanners, mainq >>
    /\ UNCHANGED ctl

\* The gemini section starts AIWorker(targets, self.ai) when the core stack is
\* missing, and self.ai is then None for good (boot_ai_system is scheduled
\* only if TITANIUM_AVAILABLE): every analysis is {'score': 0, 'path': path}.
WorkerScores == IF TITANIUM_AVAILABLE THEN Scores ELSE {0}

\* if i % 5 == 0 (legacy: i % 10 == 0)
ProgressPeriod(v) == IF v = "legacy" THEN 10 ELSE 5

\* What the worker emits as progress after the result of the item i
\* (0-based) of total:
\*   AIWorker, gemini and chatgpt: every fifth item, and only if
\*       time.time() - start_time > 0, progress_update(i + 1, total, msg);
\*   AIWorker, legacy: every tenth item, progress_update(i + 1, total, msg);
\*   TitaniumWorker: every item, progress(int(((i + 1) / total) * 100)).
ProgressAfter(wk, i, total) ==
    IF wk.kind = "TitaniumWorker"
    THEN << Emitted("progress", << ((i + 1) * 100) \div total >>) >>
    ELSE IF /\ i % ProgressPeriod(variant) = 0
            /\ variant = "legacy" \/ i >= clock_stall
    THEN << Emitted("progress", << i + 1, total >>) >>
    ELSE <<>>

\* result_ready.emit(i, analysis) / signals.result.emit(final_result), then
\* the progress signal
Delivers(w, p, ev) ==
    /\ mainq' = IF workers[w].connected THEN Append(mainq, ev) ELSE mainq
    /\ workers' = [workers EXCEPT
                     ![w].i = workers[w].i + 1,
                     ![w].pc = "loop",
                     ![w].out = Append(workers[w].out,
                                       Emitted("result", <<p>>))
                                \o ProgressAfter(workers[w], workers[w].i,
                                                 Len(workers[w].paths))]

\* The analysis of paths[i + 1].  When it raises (the path is in faults):
\*   AIWorker, gemini and chatgpt: except Exception, the result is
\*       {'score': 0, 'path': path};
\*   AIWorker, legacy: except AttributeError, the result is a dict with no
\*       'path'; any other exception leaves run, with no result and no
\*       finished_scan;
\*   TitaniumWorker: except Exception prints, and the loop goes on with no
\*       result for the path.
WorkerAnalyse(w) ==
    LET wk == workers[w]
        p == wk.paths[wk.i + 1]
    IN
    /\ wk.pc = "analyse"
    /\ IF p \notin faults
       THEN \E sc \in WorkerScores : Delivers(w, p, ResultEvent(w, p, sc))
       ELSE IF wk.kind = "TitaniumWorker"
       THEN /\ workers' = [workers EXCEPT ![w].i = wk.i + 1, ![w].pc = "loop"]
            /\ UNCHANGED mainq
       ELSE IF variant # "legacy"
       THEN Delivers(w, p, ResultEvent(w, p, 0))
       ELSE \/ Delivers(w, p, ResultEvent(w, NoneStr, 0))
            \/ /\ workers' = [workers EXCEPT ![w].i = wk.i + 1,
                                             ![w].pc = "dead"]
               /\ UNCHANGED mainq
    /\ UNCHANGED << env, scanners >>
    /\ UNCHANGED ctl

\* a run that ends without its finished_scan
WorkerFinish_silent(w) ==
    /\ workers[w].pc = "finish"
    /\ workers' = [workers EXCEPT ![w].pc = "done"]
    /\ UNCHANGED << env, scanners, mainq >>
    /\ UNCHANGED ctl

WorkerFinish(w) ==
    LET wk == workers[w] IN
    /\ wk.pc = "finish"
    /\ mainq' = IF wk.connected THEN Append(mainq, FinishedEvent(w))
                ELSE mainq
    /\ workers' = [workers EXCEPT
                     ![w].pc = "done",
                     ![w].out = Append(wk.out, Emitted("finished", <<>>))]
    /\ UNCHANGED << env, scanners >>
    /\ UNCHANGED ctl

(***************************************************************************)
(* Folder switch and reset.                                                *)
(***************************************************************************)
\* GalleryView.nuclear_reset (gemini): called by load_images and by the
\* "NUCLEAR RESET SESSION" button of the settings dialog.  It touches neither
\* multi_selection, the undo/redo stacks nor any worker.
nuclear_reset ==
    /\ variant = "gemini"
    /\ epoch < MaxLoads
    /\ image_data' = <<>>
    /\ path_registry' = {}
    /\ visible_indices' = <<>>
    /\ current_index' = 0
    /\ epoch' = epoch + 1
    /\ origin' = <<>>
    /\ analysed' = {}
    /\ Input("nuclear_reset")
    /\ UNCHANGED << env, multi_selection, filter_state, undo_stack,
                    redo_stack, safety_net, auto_advance, ai_threshold,
                    btn_text, btn_enabled, current_folder, scanners,
                    scanner_worker, workers, ai_worker, mainq, undone >>

\* GalleryView.load_images (gemini): nuclear_reset, then a new scanner; the
\* scanner of the previous folder is neither stopped nor disconnected.
load_images_gemini(f) ==
    /\ variant = "gemini"
    /\ epoch < MaxLoads
    /\ image_data' = <<>>
    /\ path_registry' = {}
    /\ visible_indices' = <<>>
    /\ current_index' = 0
    /\ epoch' = epoch + 1
    /\ origin' = <<>>
    /\ analysed' = {}
    /\ current_folder' = f
    /\ scanners' = Append(scanners, NewScanner(f, epoch + 1))
    /\ scanner_worker' = Len(scanners) + 1
    /\ Input("load_images")
    /\ UNCHANGED << env, multi_selection, filter_state, undo_stack,
                    redo_stack, safety_net, auto_advance, ai_threshold,
                    btn_text, btn_enabled, workers, ai_worker, mainq, undone >>

\* GalleryView.load_images (legacy): disconnect and stop the analysis worker,
\* clear_all, set_loading(False), set_filter("all"), then a new scanner.
\* clear_all resets image_data, visible_indices and current_index; set_filter
\* rebuilds visible_indices of the now empty list and so leaves current_index
\* and multi_selection alone.  The previous scanner is left running.
\* QApplication.processEvents() inside the handler delivers queued events
\* between clear_all and the start of the new scanner; no handler reads what
\* the rest of load_images assigns, so those deliveries are the ones that
\* follow this action.
load_images_legacy(f) ==
    /\ variant = "legacy"
    /\ epoch < MaxLoads
    /\ isdir(f)
    /\ IF ai_worker # 0
       THEN workers' = [workers EXCEPT
                          ![ai_worker] = [Halted(workers[ai_worker])
                                             EXCEPT !.connected = FALSE]]
       ELSE UNCHANGED workers
    /\ ai_worker' = 0
    /\ image_data' = <<>>
    /\ visible_indices' = <<>>
    /\ current_index' = 0
    /\ btn_enabled' = TRUE
    /\ btn_text' = "ANALYZE MAGIC"
    /\ filter_state' = "all"
    /\ epoch' = epoch + 1
    /\ origin' = <<>>
    /\ analysed' = {}
    /\ current_folder' = f
    /\ scanners' = Append(scanners, NewScanner(f, epoch + 1))
    /\ scanner_worker' = Len(scanners) + 1
    /\ Input("load_images")
    /\ UNCHANGED << env, path_registry, multi_selection, undo_stack,
                    redo_stack, safety_net, auto_advance, ai_threshold, mainq, undone >>

\* GalleryView.load_images (legacy):
\* if not folder_path or not os.path.isdir(folder_path): return
load_images_refused(f) ==
    /\ variant = "legacy"
    /\ ~isdir(f)
    /\ Input("load_images")
    /\ UNCHANGED << env, image_data, path_registry, current_index,
                    multi_selection, filter_state, visible_indices,
                    undo_stack, redo_stack, safety_net, auto_advance,
                    ai_threshold, btn_text, btn_enabled, current_folder,
                    scanners, scanner_worker, workers, ai_worker, mainq,
                    epoch, origin, analysed, undone >>

load_images(f) == load_images_gemini(f) \/ load_images_legacy(f)

\* The chatgpt section's GalleryView has no loader: image_data is a public
\* attribute (self.image_data=[] in __init__) that the owner of the widget
\* fills with record dicts, decided by the curator or not.
ChatgptRecords ==
    { <<r>> : r \in [path : {"a"}, status : Statuses, score : {0},
                     rating : {0}, color : {NoneStr}, is_manual : BOOLEAN] }
    \cup
    { <<r1, r2>> :
        r1 \in [path : {"a"}, status : {"pending", "keep"}, score : {0},
                rating : {0}, color : {NoneStr}, is_manual : BOOLEAN],
        r2 \in [path : {"b"}, status : {"pending", "reject"}, score : {0},
                rating : {0}, color : {NoneStr}, is_manual : BOOLEAN] }

assign_image_data(recs) ==
    /\ variant = "chatgpt"
    /\ image_data = <<>>
    /\ epoch < MaxLoads
    /\ image_data' = recs
    /\ epoch' = epoch + 1
    /\ origin' = [k \in 1..Len(recs) |-> epoch + 1]
    /\ Input("assign_image_data")
    /\ UNCHANGED << env, path_registry, current_index, multi_selection,
                    filter_state, visible_indices, undo_stack, redo_stack,
                    safety_net, auto_advance, ai_threshold, btn_text,
                    btn_enabled, current_folder, scanners, scanner_worker,
                    workers, ai_worker, mainq, analysed, undone >>

(***************************************************************************)
(* on_batch_found: delivery of a scanner's batch_found signal.             *)
(***************************************************************************)
\* gemini: for p in batch_paths: if p not in self.path_registry: add, append
RECURSIVE FreshPaths(_, _)
FreshPaths(ps, reg) ==
    IF ps = <<>> THEN <<>>
    ELSE IF Head(ps) \in reg THEN FreshPaths(Tail(ps), reg)
    ELSE <<Head(ps)>> \o FreshPaths(Tail(ps), reg \cup {Head(ps)})

\* a merge that appends every path of the batch
NewPaths_unfiltered(v, batch_paths, reg) == batch_paths

\* the paths that get a new record: gemini skips registered paths, legacy
\* takes every path of the batch
NewPaths(v, batch_paths, reg) ==
    IF v = "gemini" THEN FreshPaths(batch_paths, reg) ELSE batch_paths

on_batch_found ==
    /\ mainq # <<>>
    /\ Head(mainq).type = "batch_found"
    /\ variant \in {"gemini", "legacy"}
    /\ LET e == Head(mainq)
           start_idx == Len(image_data)
           ps == NewPaths(variant, e.paths, path_registry)
           new_items == [k \in 1..Len(ps) |->
                           IF variant = "legacy"
                           THEN Fetched(NewItem(variant, ps[k]),
                                        fetch_folder_data(saved))
                           ELSE NewItem(variant, ps[k])]
           new_idx == [k \in 1..Len(ps) |-> start_idx + k - 1]
       IN
       /\ image_data' = image_data \o new_items
       /\ path_registry' = IF variant = "gemini"
                           THEN path_registry \cup Range(e.paths)
                           ELSE path_registry
       /\ visible_indices' =
            IF variant = "gemini" \/ filter_state = "all"
            THEN visible_indices \o new_idx
            ELSE visible_indices
       /\ origin' = origin \o [k \in 1..Len(ps) |-> scanners[e.src].epoch]
    /\ mainq' = Tail(mainq)
    /\ Op("on_batch_found")
    /\ UNCHANGED << env, current_index, multi_selection, filter_state,
                    undo_stack, redo_stack, safety_net, auto_advance,
                    ai_threshold, btn_text, btn_enabled, current_folder,
                    scanners, scanner_worker, workers, ai_worker, epoch,
                    analysed, undone >>

(***************************************************************************)
(* Analysis: trigger_ai_analysis, handle_ai_result, on_ai_done.            *)
(* trigger_ai_analysis is the slot of btn_analyze.clicked, so it runs only *)
(* while the button is enabled.                                            *)
(***************************************************************************)
AllPaths(data) == [k \in 1..Len(data) |-> data[k].path]

\* [d['path'] for d in self.image_data if not d.get('is_manual', False)]
RECURSIVE NonManualPaths(_)
NonManualPaths(data) ==
    IF data = <<>> THEN <<>>
    ELSE IF Head(data).is_manual THEN NonManualPaths(Tail(data))
    ELSE <<Head(data).path>> \o NonManualPaths(Tail(data))

\* gemini: the run is a re-analysis when the button says RE-ANALYZE; the
\* curator answers the confirmation question with reply
trigger_ai_analysis_gemini(reply) ==
    /\ variant = "gemini"
    /\ btn_enabled
    /\ image_data # <<>>
    /\ Len(workers) < MaxRuns
    /\ LET again == btn_text = "RE-ANALYZE"
           targets == IF again THEN NonManualPaths(image_data)
                      ELSE AllPaths(image_data)
       IN
       /\ again => reply = "Yes"
       /\ ~again => reply = "NotAsked"
       /\ targets # <<>>
       /\ workers' = Append(workers, NewWorker(targets, again))
    /\ btn_text' = "BUSY..."
    /\ btn_enabled' = FALSE
    /\ ai_worker' = Len(workers) + 1
    /\ Input("trigger_ai_analysis")
    /\ UNCHANGED << env, image_data, path_registry, current_index,
                    multi_selection, filter_state, visible_indices,
                    undo_stack, redo_stack, safety_net, auto_advance,
                    ai_threshold, current_folder, scanners, scanner_worker,
                    mainq, epoch, origin, analysed, undone >>

\* gemini: the curator answers No, or every record is manual: no run starts
trigger_ai_analysis_declined(reply) ==
    /\ variant = "gemini"
    /\ btn_enabled
    /\ image_data # <<>>
    /\ btn_text = "RE-ANALYZE"
    /\ \/ reply = "No"
       \/ reply = "Yes" /\ NonManualPaths(image_data) = <<>>
    /\ Input("trigger_ai_analysis")
    /\ UNCHANGED << env, image_data, path_registry, current_index,
                    multi_selection, filter_state, visible_indices,
                    undo_stack, redo_stack, safety_net, auto_advance,
                    ai_threshold, btn_text, btn_enabled, current_folder,
                    scanners, scanner_worker, workers, ai_worker, mainq,
                    epoch, origin, analysed, undone >>

\* legacy: every path, no question; the worker exists only with the core
\* stack, the button is set loading either way
trigger_ai_analysis_legacy ==
    /\ variant = "legacy"
    /\ btn_enabled
    /\ image_data # <<>>
    /\ Len(workers) < MaxRuns
    /\ btn_enabled' = FALSE
    /\ btn_text' = "STOP"
    /\ IF TITANIUM_AVAILABLE
       THEN /\ workers' = Append(workers,
                                 NewWorker(AllPaths(image_data), FALSE))
            /\ ai_worker' = Len(workers) + 1
       ELSE UNCHANGED << workers, ai_worker >>
    /\ Input("trigger_ai_analysis")
    /\ UNCHANGED << env, image_data, path_registry, current_index,
                    multi_selection, filter_state, visible_indices,
                    undo_stack, redo_stack, safety_net, auto_advance,
                    ai_threshold, current_folder, scanners, scanner_worker,
                    mainq, epoch, origin, analysed, undone >>

\* chatgpt: mark_current_image_as_processing sets the current record's status
\* to 'pending' first, whatever its is_manual flag; then as legacy
mark_current_image_as_processing(data, idx) ==
    IF data = <<>> THEN data
    ELSE [data EXCEPT ![idx + 1].status = "pending"]

trigger_ai_analysis_chatgpt ==
    /\ variant = "chatgpt"
    /\ btn_enabled
    /\ image_data # <<>>
    /\ Len(workers) < MaxRuns
    /\ image_data' = mark_current_image_as_processing(image_data,
                                                      current_index)
    /\ btn_enabled' = FALSE
    /\ btn_text' = "STOP"
    /\ IF TITANIUM_AVAILABLE
       THEN /\ workers' = Append(workers,
                                 NewWorker(AllPaths(image_data), FALSE))
            /\ ai_worker' = Len(workers) + 1
       ELSE UNCHANGED << workers, ai_worker >>
    /\ Input("trigger_ai_analysis")
    /\ UNCHANGED << env, path_registry, current_index, multi_selection,
                    filter_state, visible_indices, undo_stack, redo_stack,
                    safety_net, auto_advance, ai_threshold, current_folder,
                    scanners, scanner_worker, mainq, epoch, origin, analysed, undone >>

trigger_ai_analysis(reply) ==
    \/ trigger_ai_analysis_gemini(reply)
    \/ trigger_ai_analysis_declined(reply)
    \/ reply = "NotAsked" /\ trigger_ai_analysis_legacy
    \/ reply = "NotAsked" /\ trigger_ai_analysis_chatgpt

\* the status the controller derives from a delivered score
\*   gemini:  if d.get('score', 0) > 45 and not d.get('is_manual'): 'keep'
\*   legacy:  (the later handle_ai_result) no status change
\*   chatgpt: if not is_manual: 'keep' if score >= 80 else 'reject'
Verdict(v, d, sc) ==
    IF v = "gemini"
    THEN IF sc > GeminiKeepLiteral /\ ~d.is_manual THEN "keep" ELSE d.status
    ELSE IF v = "chatgpt"
    THEN IF ~d.is_manual
         THEN IF sc >= ChatgptKeepLiteral THEN "keep" ELSE "reject"
         ELSE d.status
    ELSE d.status

\* a handler that takes the result's index for the record to update
ApplyResult_by_index(v, data, p, sc) ==
    [k \in 1..Len(data) |->
       IF k = 1 THEN [data[k] EXCEPT !.score = sc, !.status = "keep"]
       ELSE data[k]]

\* d.update(res) and the verdict, on the records the handler's loop reaches:
\* every record with the path in gemini (no break), the first one otherwise
ApplyResult(v, data, p, sc) ==
    LET first == IndexOf(AllPaths(data), p) IN
    [k \in 1..Len(data) |->
       IF data[k].path = p /\ (v = "gemini" \/ k = first)
       THEN [data[k] EXCEPT !.score = sc,
                            !.status = Verdict(v, data[k], sc)]
       ELSE data[k]]

handle_ai_result ==
    /\ mainq # <<>>
    /\ Head(mainq).type = "result_ready"
    /\ LET e == Head(mainq) IN
       /\ image_data' = ApplyResult(variant, image_data, e.path, e.score)
       /\ analysed' = IF e.path \in PathsOf(image_data)
                      THEN analysed \cup {e.path} ELSE analysed
    /\ visible_indices' =
         IF variant = "legacy"
         THEN RebuiltIndices(variant, filter_state, image_data')
         ELSE visible_indices
    /\ mainq' = Tail(mainq)
    /\ Op("handle_ai_result")
    /\ UNCHANGED << env, path_registry, current_index, multi_selection,
                    filter_state, undo_stack, redo_stack, safety_net,
                    auto_advance, ai_threshold, btn_text, btn_enabled,
                    current_folder, scanners, scanner_worker, workers,
                    ai_worker, epoch, origin, undone >>

\* on_ai_done (gemini) / on_ai_finished (legacy, chatgpt)
on_ai_done ==
    /\ mainq # <<>>
    /\ Head(mainq).type = "finished_scan"
    /\ btn_enabled' = TRUE
    /\ btn_text' = IF variant = "gemini" THEN "RE-ANALYZE"
                   ELSE "ANALYZE MAGIC"
    /\ visible_indices' =
         IF variant = "chatgpt" THEN visible_indices
         ELSE RebuiltIndices(variant, filter_state, image_data)
    /\ mainq' = Tail(mainq)
    /\ Op("on_ai_done")
    /\ UNCHANGED << env, image_data, path_registry, current_index,
                    multi_selection, filter_state, undo_stack, redo_stack,
                    safety_net, auto_advance, ai_threshold, current_folder,
                    scanners, scanner_worker, workers, ai_worker, epoch,
                    origin, analysed, undone >>

(***************************************************************************)
(* Selection, navigation, filter.                                          *)
(***************************************************************************)
\* on_card_click(idx, mods): a click on a rendered card.  gemini ignores the
\* modifiers and rebuilds the grid; legacy keeps multi_selection as it is on
\* Shift (pass) and on Ctrl.
on_card_click(idx, mods) ==
    /\ variant \in {"gemini", "legacy"}
    /\ idx \in Range(visible_indices)
    /\ variant = "gemini" => mods = "none"
    /\ current_index' = idx
    /\ multi_selection' = IF mods = "none" THEN {idx} ELSE multi_selection
    /\ visible_indices' =
         IF variant = "gemini"
         THEN RebuiltIndices(variant, filter_state, image_data)
         ELSE visible_indices
    /\ Input("on_card_click")
    /\ UNCHANGED << env, image_data, path_registry, filter_state, undo_stack,
                    redo_stack, safety_net, auto_advance, ai_threshold,
                    btn_text, btn_enabled, current_folder, scanners,
                    scanner_worker, workers, ai_worker, mainq, epoch, origin,
                    analysed, undone >>

\* move_index: the record the move lands on, -1 when the try block ends
\* without a click (current_index not visible: ValueError; or out of range)
MoveTarget(vis, cur, delta) ==
    LET k == IndexOf(vis, cur) IN
    IF k = 0 THEN -1
    ELSE LET n == (k - 1) + delta IN
         IF 0 <= n /\ n < Len(vis) THEN vis[n + 1] ELSE -1

move_index(delta) ==
    /\ variant \in {"gemini", "legacy"}
    /\ LET t == MoveTarget(visible_indices, current_index, delta) IN
       /\ t # -1
       /\ current_index' = t
       /\ multi_selection' = {t}
    /\ visible_indices' =
         IF variant = "gemini"
         THEN RebuiltIndices(variant, filter_state, image_data)
         ELSE visible_indices
    /\ Input("move_index")
    /\ UNCHANGED << env, image_data, path_registry, filter_state, undo_stack,
                    redo_stack, safety_net, auto_advance, ai_threshold,
                    btn_text, btn_enabled, current_folder, scanners,
                    scanner_worker, workers, ai_worker, mainq, epoch, origin,
                    analysed, undone >>

\* set_filter(mode): legacy also moves the selection to the first visible
\* record when the current one is filtered out
set_filter(mode) ==
    /\ variant \in {"gemini", "legacy"}
    /\ filter_state' = mode
    /\ LET vis == RebuiltIndices(variant, mode, image_data)
           jump == variant = "legacy" /\ vis # <<>>
                   /\ current_index \notin Range(vis)
       IN
       /\ visible_indices' = vis
       /\ current_index' = IF jump THEN vis[1] ELSE current_index
       /\ multi_selection' = IF jump THEN {vis[1]} ELSE multi_selection
    /\ Input("set_filter")
    /\ UNCHANGED << env, image_data, path_registry, undo_stack, redo_stack,
                    safety_net, auto_advance, ai_threshold, btn_text,
                    btn_enabled, current_folder, scanners, scanner_worker,
                    workers, ai_worker, mainq, epoch, origin, analysed, undone >>

\* apply_settings(settings): gemini and legacy take auto_advance from the
\* packet and rebuild the grid of a non-empty record set; the packet's
\* 'ai_threshold' is read by neither, self.ai_threshold keeps its value
apply_settings(settings) ==
    /\ variant \in {"gemini", "legacy"}
    /\ auto_advance' = settings.auto_advance
    /\ visible_indices' =
         IF image_data # <<>>
         THEN RebuiltIndices(variant, filter_state, image_data)
         ELSE visible_indices
    /\ Input("apply_settings")
    /\ UNCHANGED << env, image_data, path_registry, current_index,
                    multi_selection, filter_state, undo_stack, redo_stack,
                    safety_net, ai_threshold, btn_text, btn_enabled,
                    current_folder, scanners, scanner_worker, workers,
                    ai_worker, mainq, epoch, origin, analysed, undone >>

(***************************************************************************)
(* Curator decisions and the journal.                                      *)
(***************************************************************************)
\* if status: ...; if rating is not None: ...; if color: ...; is_manual = True
Decide(d, status, rating, color) ==
    [d EXCEPT !.status = IF status # NoneStr THEN status ELSE @,
              !.rating = IF rating # NoneInt THEN rating ELSE @,
              !.color = IF color # NoneStr THEN color ELSE @,
              !.is_manual = TRUE]

\* A journalling apply_decision that forgets to clear the redo stack: the
\* earlier legacy definition (push of the snapshot on undo_stack, or on the
\* SafetyNet with the core stack) without its self.redo_stack.clear().
apply_decision_keeps_redo(status, rating, color) ==
    /\ variant \in {"gemini", "legacy"}
    /\ image_data # <<>>
    /\ current_index < Len(image_data)
    /\ IF TITANIUM_AVAILABLE
       THEN /\ safety_net' = Append(safety_net, << Rec(current_index) >>)
            /\ UNCHANGED undo_stack
       ELSE /\ undo_stack' = Append(undo_stack,
                               [idxs |-> << current_index >>,
                                states |-> << Rec(current_index) >>])
            /\ UNCHANGED safety_net
    /\ image_data' = [image_data EXCEPT ![current_index + 1] =
                        Decide(@, status, rating, color)]
    /\ saved' = SavedDecision(saved,
                              Decide(Rec(current_index), status, rating,
                                     color),
                              Rec(current_index))
    /\ before' = image_data
    /\ undone' = IF undone = "pending" THEN "decided" ELSE "no"
    /\ inputs < MaxInputs
    /\ inputs' = inputs + 1
    /\ last_op' = "apply_decision"
    /\ UNCHANGED << world, path_registry, current_index, multi_selection,
                    filter_state, visible_indices, redo_stack, auto_advance,
                    ai_threshold, btn_text, btn_enabled, current_folder,
                    scanners, scanner_worker, workers, ai_worker, mainq,
                    epoch, origin, analysed >>

\* apply_decision: the gemini definition and the later legacy definition.
\* Both change the record at current_index only and push nothing on the
\* undo stack or the SafetyNet.  gemini then calls self.update_card_style,
\* which its class does not define (AttributeError): the handler ends there,
\* before move_index.  legacy goes on to move_index(1) when auto_advance.
apply_decision(status, rating, color) ==
    /\ variant \in {"gemini", "legacy"}
    /\ image_data # <<>>
    /\ current_index < Len(image_data)
    /\ image_data' = [image_data EXCEPT ![current_index + 1] =
                        Decide(@, status, rating, color)]
    /\ saved' = SavedDecision(saved,
                              Decide(Rec(current_index), status, rating,
                                     color),
                              Rec(current_index))
    /\ LET t == MoveTarget(visible_indices, current_index, 1)
           moves == variant = "legacy" /\ auto_advance /\ t # -1
       IN
       /\ current_index' = IF moves THEN t ELSE current_index
       /\ multi_selection' = IF moves THEN {t} ELSE multi_selection
    /\ before' = image_data
    /\ undone' = IF undone = "pending" THEN "decided" ELSE "no"
    /\ inputs < MaxInputs
    /\ inputs' = inputs + 1
    /\ last_op' = "apply_decision"
    /\ UNCHANGED << world, path_registry, filter_state, visible_indices,
                    undo_stack, redo_stack, safety_net, auto_advance,
                    ai_threshold, btn_text, btn_enabled, current_folder,
                    scanners, scanner_worker, workers, ai_worker, mainq,
                    epoch, origin, analysed >>

\* SafetyNet.pop_undo (core.safety_net): the most recent batch of snapshots,
\* removed from the journal; nothing (falsy) when the journal is empty
pop_undo(journal) ==
    IF journal = <<>>
    THEN [batch |-> <<>>, rest |-> <<>>]
    ELSE [batch |-> journal[Len(journal)],
          rest |-> SubSeq(journal, 1, Len(journal) - 1)]

\* how many records of a batch the restore loop reaches: gemini's loop calls
\* self.update_card_style (not defined in its class) after the first
\* assignment and ends there
Reached(v, n) == IF v = "gemini" /\ n > 1 THEN 1 ELSE n

\* for i, idx in enumerate(idxs): self.image_data[idx] = states[i]
RestoreByIndex(data, idxs, states, n) ==
    [k \in 1..Len(data) |->
       IF \E j \in 1..n : idxs[j] = k - 1
       THEN states[CHOOSE j \in 1..n :
                     idxs[j] = k - 1 /\ \A j2 \in (j+1)..n : idxs[j2] # k - 1]
       ELSE data[k]]

\* for img_state in last_states: the first record with that path is replaced
RECURSIVE RestoreByPath(_, _, _)
RestoreByPath(data, states, n) ==
    IF n = 0 \/ states = <<>> THEN data
    ELSE LET s == Head(states)
             k == IndexOf(AllPaths(data), s.path)
             d2 == IF k = 0 THEN data ELSE [data EXCEPT ![k] = s]
         IN RestoreByPath(d2, Tail(states), n - 1)

Snapshot(data, idxs) == [j \in 1..Len(idxs) |-> data[idxs[j] + 1]]

\* self.image_data[i] for i in idxs raises IndexError when an index of the
\* batch is past the end of the list: the handler ends after its pop()
InRange(data, idxs) == \A j \in 1..Len(idxs) : idxs[j] < Len(data)

\* perform_undo (the same text in the gemini and the legacy section): with
\* the core stack the batch comes from the SafetyNet and is restored by
\* path, nothing goes to a redo stack; without it the batch comes from
\* undo_stack, the current states go to redo_stack, restore is by index
perform_undo ==
    /\ variant \in {"gemini", "legacy"}
    /\ IF TITANIUM_AVAILABLE
       THEN LET got == pop_undo(safety_net) IN
            /\ safety_net' = got.rest
            /\ image_data' = RestoreByPath(image_data, got.batch,
                                Reached(variant, Len(got.batch)))
            /\ UNCHANGED << undo_stack, redo_stack, saved >>
       ELSE IF undo_stack = <<>>
       THEN UNCHANGED << image_data, undo_stack, redo_stack, safety_net,
                         saved >>
       ELSE LET top == undo_stack[Len(undo_stack)] IN
            /\ undo_stack' = SubSeq(undo_stack, 1, Len(undo_stack) - 1)
            /\ IF InRange(image_data, top.idxs)
               THEN /\ redo_stack' = Append(redo_stack,
                                       [idxs |-> top.idxs,
                                        states |-> Snapshot(image_data,
                                                            top.idxs)])
                    /\ image_data' = RestoreByIndex(image_data, top.idxs,
                                        top.states,
                                        Reached(variant, Len(top.idxs)))
                    /\ saved' = SavedRestore(saved, top.states,
                                    Reached(variant, Len(top.idxs)))
               ELSE UNCHANGED << redo_stack, image_data, saved >>
            /\ UNCHANGED safety_net
    /\ undone' = "pending"
    /\ inputs < MaxInputs
    /\ inputs' = inputs + 1
    /\ last_op' = IF last_op = "apply_decision" THEN "undo_after_decision"
                  ELSE "perform_undo"
    /\ before' = IF last_op = "apply_decision" THEN before ELSE <<>>
    /\ UNCHANGED << world, path_registry, current_index, multi_selection,
                    filter_state, visible_indices, auto_advance,
                    ai_threshold, btn_text, btn_enabled, current_folder,
                    scanners, scanner_worker, workers, ai_worker, mainq,
                    epoch, origin, analysed >>

\* perform_redo: the mirror of the undo_stack path; it never looks at the
\* SafetyNet
perform_redo ==
    /\ variant \in {"gemini", "legacy"}
    /\ IF redo_stack = <<>>
       THEN UNCHANGED << image_data, undo_stack, redo_stack, saved >>
       ELSE LET top == redo_stack[Len(redo_stack)] IN
            /\ redo_stack' = SubSeq(redo_stack, 1, Len(redo_stack) - 1)
            /\ IF InRange(image_data, top.idxs)
               THEN /\ undo_stack' = Append(undo_stack,
                                       [idxs |-> top.idxs,
                                        states |-> Snapshot(image_data,
                                                            top.idxs)])
                    /\ image_data' = RestoreByIndex(image_data, top.idxs,
                                        top.states,
                                        Reached(variant, Len(top.idxs)))
                    /\ saved' = SavedRestore(saved, top.states,
                                    Reached(variant, Len(top.idxs)))
               ELSE UNCHANGED << undo_stack, image_data, saved >>
    /\ inputs < MaxInputs
    /\ inputs' = inputs + 1
    /\ last_op' = IF last_op = "apply_decision" THEN "redo_after_decision"
                  ELSE "perform_redo"
    /\ before' = <<>>
    /\ UNCHANGED << world, path_registry, current_index, multi_selection,
                    filter_state, visible_indices, safety_net, auto_advance,
                    ai_threshold, btn_text, btn_enabled, current_folder,
                    scanners, scanner_worker, workers, ai_worker, mainq,
                    epoch, origin, analysed, undone >>

(***************************************************************************)
(* ImageCache (global_cache).  The dict self.cache is the sequence `cache` *)
(* of [key, val] in insertion order: pop removes an entry, assignment to a *)
(* new key appends, assignment to a present key replaces the value in      *)
(* place, next(iter(self.cache)) is the head.                              *)
(*                                                                         *)
(* A caller t is a thread calling get / insert / clear; calls[t] is the    *)
(* call it is in.  One step is one dict operation (the interpreter can     *)
(* switch threads between two of them).                                    *)
(*   chatgpt: with QMutexLocker(self.lock): the lock is held from "lock"   *)
(*            to the end of the body;                                      *)
(*   gemini:  QMutexLocker(self.lock) as a statement of its own: the       *)
(*            locker object is dropped, and the mutex released, as soon as *)
(*            the statement ends, so the body runs without the lock;       *)
(*   legacy:  no lock, get is self.cache.get(key), no clear method.        *)
(***************************************************************************)
\* number of entries the modelled cache may hold (self.max_items)
CacheCapacity == 2
\* threads calling the cache
MaxCallers == 2
\* calls of the cache in one behaviour, made by one thread
MaxCalls == 4
\* calls of the cache in one behaviour, made by several threads
MaxThreadCalls == 3
\* ImageCache.__init__: self.max_items = 1500
DefaultMaxItems == 1500

Callers == 1..threads
CallBudget == IF threads = 1 THEN MaxCalls ELSE MaxThreadCalls
CacheKeys == 1..(CacheCapacity + 1)
Pixmaps == {"p1", "p2"}

Idle == [op |-> "none", key |-> 0, val |-> NoneStr, pc |-> "idle",
         tmp |-> NoneStr, pre |-> <<>>]

KeysOf(c) == {c[i].key : i \in 1..Len(c)}
KeySeq(c) == [i \in 1..Len(c) |-> c[i].key]
ValueOf(c, k) == c[CHOOSE i \in 1..Len(c) : c[i].key = k].val

\* a pop that removes nothing
Popped_nothing(c, k) == c

\* self.cache.pop(key)
Popped(c, k) == SelectSeq(c, LAMBDA e : e.key # k)

\* an eviction that removes nothing, and one that removes the newest entry
Evicted_nothing(c) == c
Evicted_newest(c) == IF c = <<>> THEN c ELSE SubSeq(c, 1, Len(c) - 1)

\* self.cache.pop(next(iter(self.cache))): StopIteration on an empty dict
\* is caught
Evicted(c) == IF c = <<>> THEN c ELSE Tail(c)

\* self.cache[key] = pixmap
Stored(c, k, v) ==
    IF k \in KeysOf(c)
    THEN [i \in 1..Len(c) |-> IF c[i].key = k THEN [key |-> k, val |-> v]
                              ELSE c[i]]
    ELSE Append(c, [key |-> k, val |-> v])

\* a caller is inside the body of get / insert / clear
InBody(c) == c.pc \in {"body", "pop", "evict", "put"}

\* least-recently-accessed order after the call c has been served: a get
\* hit and an insert are accesses, an insert of a new key into a full cache
\* drops the least recently accessed key first
MovedLast(l, k) == Append(SelectSeq(l, LAMBDA x : x # k), k)
LruAfter(l, c) ==
    IF c.op = "clear" THEN <<>>
    ELSE IF c.op = "get"
    THEN IF c.key \in Range(l) THEN MovedLast(l, c.key) ELSE l
    ELSE IF c.key \in Range(l) THEN MovedLast(l, c.key)
    ELSE IF Len(l) >= max_items THEN Append(Tail(l), c.key)
    ELSE Append(l, c.key)

\* everything but the cache
outside == << variant, TITANIUM_AVAILABLE, listing, faults, ctl, scanners,
              workers, mainq, shots, burst_time_threshold, enable_burst_ai,
              mtimes, retuned, clock_stall, db, saved >>

\* bookkeeping of one step that leaves the calls as nc
Track(nc) ==
    /\ calls' = nc
    /\ overlapped' = (overlapped \/ \E t \in Callers, u \in Callers :
                         t # u /\ InBody(nc[t]) /\ InBody(nc[u]))
    /\ ncalls' = ncalls + Cardinality({t \in Callers :
                              calls[t].pc = "idle" /\ nc[t].pc # "idle"})
    /\ UNCHANGED << max_items, threads, outside >>

\* the call of t ends with result r: the with statement gives the lock back
Return(t, r, torn) ==
    /\ Track([calls EXCEPT ![t] = Idle])
    /\ last' = [op |-> calls[t].op, key |-> calls[t].key,
                val |-> calls[t].val, pre |-> calls[t].pre,
                ret |-> r, torn |-> torn]
    /\ lru' = LruAfter(lru, calls[t])
    /\ lock' = IF lock = t THEN 0 ELSE lock

\* a thread calls get(k), insert(k, v) or clear()
cache_call(t, op, k, v) ==
    /\ calls[t].pc = "idle"
    /\ ncalls < CallBudget
    /\ variant = "legacy" => op # "clear"
    /\ Track([calls EXCEPT ![t] =
                 [op |-> op, key |-> k, val |-> v,
                  pc |-> IF variant = "legacy" THEN "body" ELSE "lock",
                  tmp |-> NoneStr, pre |-> cache]])
    /\ UNCHANGED << cache, lock, lru, last >>

\* QMutexLocker(self.lock): waits for the mutex; the with statement keeps
\* it to the end of the body, the bare statement gives it back at once
cache_acquire(t) ==
    /\ calls[t].pc = "lock"
    /\ lock = 0
    /\ lock' = IF variant = "chatgpt" THEN t ELSE 0
    /\ Track([calls EXCEPT ![t].pc = "body", ![t].pre = cache])
    /\ UNCHANGED << cache, lru, last >>

\* get: if key in self.cache / return None; legacy: self.cache.get(key)
cache_get(t) ==
    LET c == calls[t]
        hit == c.key \in KeysOf(cache)
        torn == \E u \in Callers \ {t} :
                    /\ calls[u].op = "get" /\ calls[u].key = c.key
                    /\ calls[u].pc = "put"
    IN  /\ c.pc = "body" /\ c.op = "get"
        /\ IF variant = "legacy"
           THEN Return(t, IF hit THEN ValueOf(cache, c.key) ELSE NoneStr,
                       FALSE)
           ELSE IF hit
           THEN /\ Track([calls EXCEPT ![t].pc = "pop"])
                /\ UNCHANGED << lru, lock, last >>
           ELSE Return(t, NoneStr, torn)
        /\ UNCHANGED cache

\* insert: if key in self.cache / elif len(self.cache) >= self.max_items;
\* legacy: if len(self.cache) >= self.max_items
cache_insert(t) ==
    LET c == calls[t]
        full == Len(cache) >= max_items
    IN  /\ c.pc = "body" /\ c.op = "insert"
        /\ Track([calls EXCEPT ![t].pc =
                     IF variant # "legacy" /\ c.key \in KeysOf(cache)
                     THEN "pop"
                     ELSE IF full THEN "evict" ELSE "put"])
        /\ UNCHANGED << cache, lock, lru, last >>

\* self.cache.pop(key) of get and of insert; a key that is gone by now
\* raises KeyError out of the call
cache_pop(t) ==
    LET c == calls[t]
    IN  /\ c.pc = "pop"
        /\ IF c.key \in KeysOf(cache)
           THEN /\ cache' = Popped(cache, c.key)
                /\ Track([calls EXCEPT ![t].pc = "put",
                                       ![t].tmp = ValueOf(cache, c.key)])
                /\ UNCHANGED << lru, lock, last >>
           ELSE /\ Return(t, "KeyError", FALSE)
                /\ UNCHANGED cache

\* try: self.cache.pop(next(iter(self.cache))) except ...: pass
cache_evict(t) ==
    /\ calls[t].pc = "evict"
    /\ cache' = Evicted(cache)
    /\ Track([calls EXCEPT ![t].pc = "put"])
    /\ UNCHANGED << lru, lock, last >>

\* get: self.cache[key] = value; return value
\* insert: self.cache[key] = pixmap
cache_put(t) ==
    LET c == calls[t]
        v == IF c.op = "get" THEN c.tmp ELSE c.val
    IN  /\ c.pc = "put"
        /\ cache' = Stored(cache, c.key, v)
        /\ Return(t, IF c.op = "get" THEN v ELSE NoneStr, FALSE)

\* clear: self.cache.clear()
cache_clear(t) ==
    /\ calls[t].pc = "body" /\ calls[t].op = "clear"
    /\ cache' = <<>>
    /\ Return(t, NoneStr, FALSE)

NoCall == [op |-> "none", key |-> 0, val |-> NoneStr, pre |-> <<>>,
           ret |-> NoneStr, torn |-> FALSE]

CacheAtRest ==
    /\ cache = <<>>
    /\ lock = 0
    /\ calls = [t \in 1..MaxCallers |-> Idle]
    /\ lru = <<>>
    /\ ncalls = 0
    /\ last = NoCall
    /\ overlapped = FALSE

\* global_cache = ImageCache(), with a capacity small enough to fill
InitCache ==
    /\ GalleryInit
    /\ TITANIUM_AVAILABLE
    /\ listing = <<>>
    /\ faults = {}
    /\ max_items \in 1..CacheCapacity
    /\ threads \in 1..MaxCallers
    /\ CacheAtRest
    /\ mtimes = <<>>
    /\ clock_stall = 0
    /\ db = FALSE

NextCache ==
    \/ \E t \in Callers, op \in {"get", "insert", "clear"}, k \in CacheKeys,
          v \in Pixmaps : cache_call(t, op, k, v)
    \/ \E t \in Callers : cache_acquire(t)
    \/ \E t \in Callers : cache_get(t)
    \/ \E t \in Callers : cache_insert(t)
    \/ \E t \in Callers : cache_pop(t)
    \/ \E t \in Callers : cache_evict(t)
    \/ \E t \in Callers : cache_put(t)
    \/ \E t \in Callers : cache_clear(t)

SpecCache == InitCache /\ [][NextCache]_vars


(***************************************************************************)
(* One FolderScanner run on the folder "D", whose entries are drawn from   *)
(* Listings: image files (every seventh a .nef, which the legacy section   *)
(* does not accept), alone or alternating with sub-folders and text files, *)
(* and listings with one entry that cannot be read or where the            *)
(* enumeration fails.                                                      *)
(***************************************************************************)
\* image files in the largest folder scanned
MaxFiles == 120
\* scanner runs in one behaviour
MaxScans == 1

FileCounts == {0, 1, 49, 50, 51, 100, MaxFiles}
BrokenCounts == {3, 51}

File(i) == Entry(i, TRUE, IF i % 7 = 0 THEN ".nef" ELSE ".jpg")
Junk(i) == IF i % 2 = 0 THEN Entry(0 - i, FALSE, ".jpg")
           ELSE Entry(0 - i, TRUE, ".txt")

Plain(n) == [i \in 1..n |-> File(i)]
Mixed(n) == [j \in 1..(2 * n) |-> IF j % 2 = 1 THEN Junk((j + 1) \div 2)
                                  ELSE File(j \div 2)]
Broken(l, k, kind) == [l EXCEPT ![k].raises = kind]

Listings ==
    {Plain(n) : n \in FileCounts} \cup {Mixed(n) : n \in FileCounts}
    \cup UNION {{Broken(Plain(n), k, kind) :
                    k \in {1, 2, n}, kind \in {"entry", "scandir"}} :
                 n \in BrokenCounts}

\* self.scanner_worker = FolderScanner(path); self.scanner_worker.start()
scan_start ==
    /\ Len(scanners) < MaxScans
    /\ scanners' = Append(scanners, NewScanner("D", 0))
    /\ UNCHANGED << env, workers, mainq >>
    /\ UNCHANGED ctl

InitScan ==
    /\ GalleryInit
    /\ TITANIUM_AVAILABLE
    /\ listing \in Listings
    /\ faults = {}
    /\ max_items = DefaultMaxItems
    /\ threads = 1
    /\ CacheAtRest
    /\ mtimes = <<>>
    /\ clock_stall = 0
    /\ db = FALSE

NextScan ==
    \/ scan_start
    \/ \E s \in 1..Len(scanners) : ScannerLoop(s)
    \/ \E s \in 1..Len(scanners) : ScannerEntry(s)
    \/ \E s \in 1..Len(scanners) : ScannerTail(s)
    \/ \E s \in 1..Len(scanners) : ScannerFinish(s)
    \/ \E s \in 1..Len(scanners) : ScannerStop(s)

\* the steps of the scanner thread: QThread.run runs on its own thread and
\* waits for nothing but msleep
ScannerRuns ==
    \E s \in 1..Len(scanners) :
        ScannerLoop(s) \/ ScannerEntry(s) \/ ScannerTail(s) \/ ScannerFinish(s)

SpecScan == InitScan /\ [][NextScan]_vars

SpecScanFair == InitScan /\ [][NextScan]_vars /\ WF_vars(ScannerRuns)

(***************************************************************************)
(* One analysis worker over the paths 1 .. MaxPaths, stopped at any        *)
(* moment; the paths in faults are those whose analysis raises.            *)
(***************************************************************************)
\* paths handed to the worker
MaxPaths == 4
\* worker runs in one behaviour
MaxWorkers == 1

WorkerKinds == {"AIWorker", "TitaniumWorker"}

\* AIWorker(targets, self.ai).start() / QThreadPool.start(tester.worker)
worker_start(kind) ==
    /\ Len(workers) < MaxWorkers
    /\ workers' = Append(workers,
                         IF kind = "AIWorker"
                         THEN NewWorker([j \in 1..MaxPaths |-> j], FALSE)
                         ELSE NewTitaniumWorker([j \in 1..MaxPaths |-> j]))
    /\ UNCHANGED << env, scanners, mainq >>
    /\ UNCHANGED ctl

\* stop() from the main thread
WorkerStop(w) ==
    /\ workers[w].running
    /\ workers' = [workers EXCEPT ![w] = Halted(workers[w])]
    /\ UNCHANGED << env, scanners, mainq >>
    /\ UNCHANGED ctl

InitWorker ==
    /\ GalleryInit
    /\ listing = <<>>
    /\ faults \in SUBSET (1..MaxPaths)
    /\ max_items = DefaultMaxItems
    /\ threads = 1
    /\ CacheAtRest
    /\ mtimes = <<>>
    /\ clock_stall = 0
    /\ db = FALSE

NextWorker ==
    \/ \E kind \in WorkerKinds : worker_start(kind)
    \/ \E w \in 1..Len(workers) : WorkerLoop(w)
    \/ \E w \in 1..Len(workers) : WorkerAnalyse(w)
    \/ \E w \in 1..Len(workers) : WorkerFinish(w)
    \/ \E w \in 1..Len(workers) : WorkerStop(w)

SpecWorker == InitWorker /\ [][NextWorker]_vars

(***************************************************************************)
(* One analysis worker running over a list long enough to report progress  *)
(* more than once.                                                         *)
(***************************************************************************)
\* paths of one run: long enough for the progress of items 0, 5 and 10
MaxRunLength == 11
\* results emitted while time.time() still equals start_time
MaxStall == 1

\* AIWorker(paths, ai).start() / QThreadPool.start(worker) over n paths
long_run_start(kind, n) ==
    /\ Len(workers) < MaxWorkers
    /\ workers' = Append(workers,
                         IF kind = "AIWorker"
                         THEN NewWorker([j \in 1..n |-> j], FALSE)
                         ELSE NewTitaniumWorker([j \in 1..n |-> j]))
    /\ UNCHANGED << env, scanners, mainq >>
    /\ UNCHANGED ctl

\* the scores play no part in the progress signals: the core stack is taken
\* as missing, which is when the gemini section runs its own AIWorker
InitProgress ==
    /\ GalleryInit
    /\ ~TITANIUM_AVAILABLE
    /\ listing = <<>>
    /\ faults \in {{}, {2}}
    /\ max_items = DefaultMaxItems
    /\ threads = 1
    /\ CacheAtRest
    /\ mtimes = << >>
    /\ clock_stall \in 0..MaxStall
    /\ db = FALSE

NextProgress ==
    \/ \E kind \in WorkerKinds, n \in 1..MaxRunLength : long_run_start(kind, n)
    \/ \E w \in 1..Len(workers) : WorkerLoop(w)
    \/ \E w \in 1..Len(workers) : WorkerAnalyse(w)
    \/ \E w \in 1..Len(workers) : WorkerFinish(w)
    \/ \E w \in 1..Len(workers) : WorkerStop(w)

SpecProgress == InitProgress /\ [][NextProgress]_vars

(***************************************************************************)
(* The curator's inputs.                                                   *)
(***************************************************************************)
\* keyPressEvent: C/Space keep, X/Backspace reject, 1..5 rating, 6..9 color
Decisions ==
    { <<"keep", NoneInt, NoneStr>>, <<"reject", NoneInt, NoneStr>>,
      <<NoneStr, 3, NoneStr>> }

Replies == {"Yes", "No", "NotAsked"}
Modifiers == {"none", "ctrl"}
SettingsPackets == [auto_advance : BOOLEAN, ai_threshold : {60}]

Next ==
    \/ \E s \in 1..Len(scanners) : ScannerLoop(s)
    \/ \E s \in 1..Len(scanners) : ScannerEntry(s)
    \/ \E s \in 1..Len(scanners) : ScannerTail(s)
    \/ \E s \in 1..Len(scanners) : ScannerFinish(s)
    \/ \E w \in 1..Len(workers) : WorkerLoop(w)
    \/ \E w \in 1..Len(workers) : WorkerAnalyse(w)
    \/ \E w \in 1..Len(workers) : WorkerFinish(w)
    \/ nuclear_reset
    \/ \E f \in Folders : load_images(f)
    \/ \E recs \in ChatgptRecords : assign_image_data(recs)
    \/ on_batch_found
    \/ \E reply \in Replies : trigger_ai_analysis(reply)
    \/ handle_ai_result
    \/ on_ai_done
    \/ \E idx \in 0..2, mods \in Modifiers : on_card_click(idx, mods)
    \/ \E delta \in {1, -1} : move_index(delta)
    \/ \E mode \in Filters : set_filter(mode)
    \/ \E st \in SettingsPackets : apply_settings(st)
    \/ \E d \in Decisions : apply_decision(d[1], d[2], d[3])
    \/ perform_undo
    \/ perform_redo

Init ==
    /\ GalleryInit
    /\ listing = <<>>
    /\ faults = {}
    /\ max_items = DefaultMaxItems
    /\ threads = 1
    /\ CacheAtRest
    /\ mtimes = <<>>
    /\ clock_stall = 0
    /\ db = FALSE

Spec == Init /\ [][Next]_vars

(***************************************************************************)
(* The gallery opening folders, some of which cannot be enumerated.        *)
(***************************************************************************)
NextLoad ==
    \/ \E f \in {"F1"} \cup BadFolders : load_images(f)
    \/ \E f \in BadFolders : load_images_refused(f)
    \/ \E s \in 1..Len(scanners) : ScannerLoop(s)
    \/ \E s \in 1..Len(scanners) : ScannerEntry(s)
    \/ \E s \in 1..Len(scanners) : ScannerTail(s)
    \/ \E s \in 1..Len(scanners) : ScannerFinish(s)
    \/ on_batch_found

SpecLoad == Init /\ [][NextLoad]_vars

(***************************************************************************)
(* Analysis runs of the gemini gallery, with the worker thread and the     *)
(* main thread's event loop scheduled fairly.                              *)
(***************************************************************************)
InitRun ==
    /\ GalleryInit
    /\ variant = "gemini"
    /\ listing = <<>>
    /\ faults \in SUBSET {"a", "b"}
    /\ max_items = DefaultMaxItems
    /\ threads = 1
    /\ CacheAtRest
    /\ mtimes = << >>
    /\ clock_stall = 0
    /\ db = FALSE

\* closeEvent: if self.ai_worker: self.ai_worker.stop()
stop_ai_worker ==
    /\ ai_worker # 0
    /\ WorkerStop(ai_worker)

\* the steps of the worker threads: QThread.run runs on a thread of its own
\* and waits for nothing but msleep
WorkerRuns ==
    \E w \in 1..Len(workers) :
        WorkerLoop(w) \/ WorkerAnalyse(w) \/ WorkerFinish(w)

\* the main thread's event loop takes the queued signals one by one
EventLoop == on_batch_found \/ handle_ai_result \/ on_ai_done

NextRun ==
    \/ epoch = 0 /\ load_images_gemini("F1")
    \/ \E s \in 1..Len(scanners) : ScannerLoop(s)
    \/ \E s \in 1..Len(scanners) : ScannerEntry(s)
    \/ \E s \in 1..Len(scanners) : ScannerTail(s)
    \/ \E s \in 1..Len(scanners) : ScannerFinish(s)
    \/ on_batch_found
    \/ \E reply \in Replies : trigger_ai_analysis_gemini(reply)
    \/ \E reply \in Replies : trigger_ai_analysis_declined(reply)
    \/ \E w \in 1..Len(workers) : WorkerLoop(w)
    \/ \E w \in 1..Len(workers) : WorkerAnalyse(w)
    \/ \E w \in 1..Len(workers) : WorkerFinish(w)
    \/ stop_ai_worker
    \/ handle_ai_result
    \/ on_ai_done

SpecRun ==
    InitRun /\ [][NextRun]_vars /\ WF_vars(WorkerRuns) /\ WF_vars(EventLoop)

(***************************************************************************)
(* The gallery built with a store (db) attached: one folder is loaded,     *)
(* then the curator selects, decides, undoes and redoes.                   *)
(***************************************************************************)
InitStore ==
    /\ GalleryInit
    /\ variant \in {"gemini", "legacy"}
    /\ listing = <<>>
    /\ faults = {}
    /\ max_items = DefaultMaxItems
    /\ threads = 1
    /\ CacheAtRest
    /\ mtimes = << >>
    /\ clock_stall = 0
    /\ db = TRUE

NextStore ==
    \/ epoch = 0 /\ load_images("F1")
    \/ \E s \in 1..Len(scanners) : ScannerLoop(s)
    \/ \E s \in 1..Len(scanners) : ScannerEntry(s)
    \/ \E s \in 1..Len(scanners) : ScannerTail(s)
    \/ \E s \in 1..Len(scanners) : ScannerFinish(s)
    \/ on_batch_found
    \/ \E idx \in 0..1, mods \in Modifiers : on_card_click(idx, mods)
    \/ \E delta \in {1, -1} : move_index(delta)
    \/ \E d \in Decisions : apply_decision(d[1], d[2], d[3])
    \/ perform_undo
    \/ perform_redo

SpecStore == InitStore /\ [][NextStore]_vars

(***************************************************************************)
(* Burst marking (gemini): the 'path', 'tags' and 'burst_group' fields of  *)
(* image_data, kept in shots in the order of image_data.  Times are in     *)
(* tenths of a second; os.path.getmtime succeeds for every path.           *)
(***************************************************************************)
\* files of the folder
MaxShots == 4
\* os.path.getmtime of the earliest file: far from 0, as any real mtime is
FirstShotTime == 1000

\* the capture times of the paths 1..MaxShots, as offsets from the first shot
CaptureOffsets ==
    { << 0, 3, 6, 20 >>, << 0, 3, 20, 23 >>, << 0, 10, 20, 30 >>,
      << 0, 3, 3, 20 >> }

\* the values of spin_burst_time the curator picks
BurstThresholds == {5, 12, 25}

BurstPackets ==
    [enable_burst_ai : BOOLEAN, burst_time_threshold : BurstThresholds]

ShotPaths == 1..MaxShots

Abs(x) == IF x < 0 THEN 0 - x ELSE x

getmtime(p) == mtimes[p]

\* str.split of the tags and " ".join of the tags left
WithoutBurst(tags) == SelectSeq(tags, LAMBDA t : t # "#BURST")

\* is_burst = abs(curr_time - last_time) < self.burst_time_threshold
IsBurst(curr, last_time, T) == Abs(curr - last_time) < T

\* the loop of on_batch_found over the new paths ps
RECURSIVE NewItems(_, _, _)
NewItems(ps, last_time, T) ==
    IF ps = <<>> THEN <<>>
    ELSE LET curr_time == getmtime(Head(ps))
             is_burst == IsBurst(curr_time, last_time, T)
         IN  << [path |-> Head(ps),
                 tags |-> IF is_burst THEN << "#NEW", "#BURST" >>
                          ELSE << "#NEW" >>,
                 burst_group |-> is_burst] >>
             \o NewItems(Tail(ps), curr_time, T)

\* image_data after on_batch_found(batch_paths) on the records recs
Ingest(recs, batch_paths, T) ==
    LET last_time == IF recs # <<>> THEN getmtime(recs[Len(recs)].path) ELSE 0
        known == {recs[i].path : i \in 1..Len(recs)}
        fresh == SelectSeq(batch_paths, LAMBDA p : p \notin known)
    IN  recs \o NewItems(fresh, last_time, T)

\* the loop of apply_settings over self.image_data
RECURSIVE Recalculated(_, _, _)
Recalculated(recs, last_time, T) ==
    IF recs = <<>> THEN <<>>
    ELSE LET d == Head(recs)
             curr == getmtime(d.path)
             is_b == IsBurst(curr, last_time, T)
             ts == WithoutBurst(d.tags)
         IN  << [d EXCEPT !.burst_group = is_b,
                          !.tags = IF is_b THEN Append(ts, "#BURST")
                                   ELSE ts] >>
             \o Recalculated(Tail(recs), curr, T)

\* the order list.sort puts two records in under the criteria
Later(x, y) == getmtime(x.path) > getmtime(y.path)
ByName(x, y) == x.path < y.path
Precedes(criteria, x, y) ==
    CASE criteria = "date" -> Later(x, y)
      [] criteria = "name" -> ByName(x, y)
      [] OTHER -> FALSE

\* list.sort: stable, and with reverse=True equal keys keep their order too
RECURSIVE Sorted(_, _)
Sorted(recs, criteria) ==
    IF recs = <<>> THEN <<>>
    ELSE LET rest == Sorted(SubSeq(recs, 1, Len(recs) - 1), criteria)
             x == recs[Len(recs)]
             k == Cardinality({i \in 1..Len(rest) :
                                  ~Precedes(criteria, x, rest[i])})
         IN  SubSeq(rest, 1, k) \o << x >> \o SubSeq(rest, k + 1, Len(rest))

\* duplicate-free sequences over ShotPaths of 1 or 2 paths: one batch
ShotBatches ==
    {<< p >> : p \in ShotPaths}
        \cup {b \in ShotPaths \X ShotPaths : b[1] # b[2]}

\* on_batch_found(batch_paths), the fields of the burst marking
burst_batch(batch_paths) ==
    /\ \E i \in 1..Len(batch_paths) :
          \A j \in 1..Len(shots) : shots[j].path # batch_paths[i]
    /\ shots' = Ingest(shots, batch_paths, burst_time_threshold)
    /\ UNCHANGED << variant, TITANIUM_AVAILABLE, listing, faults, cache,
                    max_items, lock, calls, lru, ncalls, threads, last,
                    overlapped, burst_time_threshold, enable_burst_ai,
                    mtimes, retuned, clock_stall, db, saved >>
    /\ UNCHANGED << ctl, scanners, workers, mainq >>

\* sort_images(criteria) on a non-empty record set; no record has a score
\* before an analysis, so "score" keeps the order
burst_sort(criteria) ==
    /\ shots # <<>>
    /\ shots' = Sorted(shots, criteria)
    /\ UNCHANGED << variant, TITANIUM_AVAILABLE, listing, faults, cache,
                    max_items, lock, calls, lru, ncalls, threads, last,
                    overlapped, burst_time_threshold, enable_burst_ai,
                    mtimes, retuned, clock_stall, db, saved >>
    /\ UNCHANGED << ctl, scanners, workers, mainq >>

\* apply_settings(settings), the fields of the burst marking
burst_settings(settings) ==
    LET old_burst == burst_time_threshold
    IN  /\ enable_burst_ai' = settings.enable_burst_ai
        /\ burst_time_threshold' = settings.burst_time_threshold
        /\ shots' =
             IF /\ shots # <<>>
                /\ settings.enable_burst_ai
                /\ settings.burst_time_threshold # old_burst
             THEN Recalculated(shots, 0, settings.burst_time_threshold)
             ELSE shots
        /\ retuned' = TRUE
        /\ UNCHANGED << variant, TITANIUM_AVAILABLE, listing, faults, cache,
                        max_items, lock, calls, lru, ncalls, threads, last,
                        overlapped, mtimes, clock_stall, db, saved >>
        /\ UNCHANGED << ctl, scanners, workers, mainq >>

InitBurst ==
    /\ GalleryInit
    /\ variant = "gemini"
    /\ TITANIUM_AVAILABLE
    /\ listing = <<>>
    /\ faults = {}
    /\ max_items = DefaultMaxItems
    /\ threads = 1
    /\ CacheAtRest
    /\ \E o \in CaptureOffsets :
          mtimes = [p \in ShotPaths |-> FirstShotTime + o[p]]
    /\ clock_stall = 0
    /\ db = FALSE

NextBurst ==
    \/ \E b \in ShotBatches : burst_batch(b)
    \/ \E c \in {"date", "score", "name"} : burst_sort(c)
    \/ \E st \in BurstPackets : burst_settings(st)

SpecBurst == InitBurst /\ [][NextBurst]_vars

(***************************************************************************)
(* Properties.                                                             *)
(***************************************************************************)
\* the step is the main thread starting or continuing an analysis run:
\* trigger_ai_analysis, or the delivery of a result to handle_ai_result
TriggerStep == inputs' = inputs + 1 /\ last_op' = "trigger_ai_analysis"
ResultStep ==
    /\ mainq # <<>>
    /\ Head(mainq).type = "result_ready"
    /\ mainq' = Tail(mainq)
BatchStep ==
    /\ mainq # <<>>
    /\ Head(mainq).type = "batch_found"
    /\ mainq' = Tail(mainq)

\* the curator's fields of a record
Curated(d) == << d.status, d.rating, d.color >>

\* number of records of data with path p
Count(data, p) == Cardinality({k \in 1..Len(data) : data[k].path = p})

\* a scanner or worker thread that was cancelled or has ended
Stopped(t) == ~t.running \/ t.pc = "done"

\* C1: a step of an analysis run (trigger_ai_analysis, or the delivery of a
\* result to handle_ai_result) leaves status, rating and color of every
\* record with is_manual = true as they were.
C1_ManualUntouchedByAnalysis ==
    [][ (TriggerStep \/ ResultStep) =>
          \A k \in 1..Len(image_data) :
             image_data[k].is_manual =>
                /\ k <= Len(image_data')
                /\ Curated(image_data'[k]) = Curated(image_data[k]) ]_vars

\* C2: a perform_undo that immediately follows an apply_decision restores
\* every record to exactly its state before that decision.
C2_UndoRestoresDecision ==
    last_op = "undo_after_decision" => image_data = before

\* C3 (precondition): the undo journal, undo_stack or the SafetyNet's, never
\* holds a batch, so no perform_undo / perform_redo round trip ever starts
\* from a non-empty journal.
C3_JournalNeverFilled == undo_stack = <<>> /\ safety_net = <<>>

C5_NeverSeveralSelected == Cardinality(multi_selection) <= 1

\* C6: when load_images or nuclear_reset has returned, image_data is empty,
\* the selection is cleared, the undo and redo stacks are empty, and every
\* scanner and analysis worker started before the call is stopped.
C6_ResetClearsEverything ==
    last_op \in {"load_images", "nuclear_reset"} =>
        /\ image_data = <<>>
        /\ current_index = 0
        /\ multi_selection = {}
        /\ undo_stack = <<>>
        /\ redo_stack = <<>>
        /\ \A s \in 1..Len(scanners) :
              scanners[s].epoch < epoch => Stopped(scanners[s])
        /\ \A w \in 1..Len(workers) : Stopped(workers[w])

\* C7: image_data never holds a record that came from a scan started before
\* the most recent load_images / reset.
C7_StaleBatchesDiscarded ==
    \A k \in 1..Len(image_data) : origin[k] = epoch

\* C8: the delivery of a batch to on_batch_found adds no record for a path
\* that is already in the record set and leaves status and is_manual of the
\* existing records as they were.
C8_DuplicatePathIgnored ==
    [][ BatchStep =>
          /\ \A p \in Range(Head(mainq).paths) \cap PathsOf(image_data) :
                Count(image_data', p) = Count(image_data, p)
          /\ \A k \in 1..Len(image_data) :
                /\ k <= Len(image_data')
                /\ image_data'[k].status = image_data[k].status
                /\ image_data'[k].is_manual = image_data[k].is_manual ]_vars

\* C9: in the gemini controller, the delivery of a result with
\* score >= ai_threshold sets the status of every targeted record that is
\* not manual to keep, the boundary score = ai_threshold included.
C9_KeepAtThreshold ==
    [][ (ResultStep /\ variant = "gemini") =>
          \A k \in 1..Len(image_data) :
             ( /\ image_data[k].path = Head(mainq).path
               /\ ~image_data[k].is_manual
               /\ Head(mainq).score >= ai_threshold )
             => image_data'[k].status = "keep" ]_vars

\* C10: a run started over a record set that has already received results
\* is handed no path of a record with is_manual = true and starts only
\* after the curator confirmed the warning.
C10_ReanalysisGuarded ==
    [][ (Len(workers') = Len(workers) + 1 /\ analysed # {}) =>
          LET nw == workers'[Len(workers')] IN
          /\ nw.confirmed
          /\ \A k \in 1..Len(image_data) :
                image_data[k].is_manual =>
                   image_data[k].path \notin Range(nw.paths) ]_vars


(***************************************************************************)
(* ImageCache                                                              *)
(***************************************************************************)
\* the step ends a call of t
CallEnds(t) == calls[t].pc # "idle" /\ calls'[t].pc = "idle"

\* the step ends insert(k, v) of t, whose body began on the cache pre, and
\* no two bodies were ever open at once
InsertEnds(t) ==
    /\ CallEnds(t)
    /\ calls[t].op = "insert"
    /\ last'.ret # "KeyError"
    /\ ~overlapped'

Guarded == variant \in {"gemini", "chatgpt"}

\* C11: while the calls of insert, get and clear are made one at a time,
\* the cache never holds more than max_items entries.
C11_CapacityBound == ~overlapped => Len(cache) <= max_items

\* an insert of a new key into a full cache has ended, the calls made one
\* at a time
C11_Witness ==
    /\ ~overlapped
    /\ Len(cache) = max_items
    /\ last.op = "insert"
    /\ Len(last.pre) = max_items
    /\ last.key \notin KeysOf(last.pre)

\* C12: in the guarded cache, inserting a new key into a full cache evicts
\* exactly one entry, the least recently accessed one; every other entry
\* stays as it was and the new key is cached.
C12_EvictsLeastRecent ==
    [][\A t \in Callers :
          (/\ Guarded
           /\ InsertEnds(t)
           /\ calls[t].key \notin KeysOf(calls[t].pre)
           /\ Len(calls[t].pre) >= max_items)
          => /\ Head(lru) \in KeysOf(calls[t].pre)
             /\ KeysOf(cache') =
                   (KeysOf(calls[t].pre) \ {Head(lru)}) \cup {calls[t].key}
             /\ Len(cache') = Len(calls[t].pre)
             /\ \A k \in KeysOf(cache') \ {calls[t].key} :
                   ValueOf(cache', k) = ValueOf(calls[t].pre, k)
             /\ ValueOf(cache', calls[t].key) = calls[t].val]_vars

\* the fourth call, an insert of a new key into a full cache of two, has
\* ended: the older entry is gone, the newer one is still cached
C12_Witness ==
    /\ Guarded /\ ~overlapped
    /\ max_items = CacheCapacity
    /\ ncalls = MaxCalls
    /\ last.op = "insert"
    /\ Len(last.pre) = max_items
    /\ last.key \notin KeysOf(last.pre)
    /\ last.pre[1].key \notin KeysOf(cache)
    /\ last.pre[2].key \in KeysOf(cache)
    /\ cache[Len(cache)].key = last.key

\* C13: in the guarded cache, insert(k, v) of a cached key k replaces its
\* value by v, makes k the most recently used entry, evicts nothing and
\* leaves the number of entries unchanged, also when the cache is full.
C13_ReinsertPromotes ==
    [][\A t \in Callers :
          (/\ Guarded
           /\ InsertEnds(t)
           /\ calls[t].key \in KeysOf(calls[t].pre))
          => /\ KeysOf(cache') = KeysOf(calls[t].pre)
             /\ Len(cache') = Len(calls[t].pre)
             /\ ValueOf(cache', calls[t].key) = calls[t].val
             /\ cache'[Len(cache')].key = calls[t].key
             /\ \A k \in KeysOf(cache') \ {calls[t].key} :
                   ValueOf(cache', k) = ValueOf(calls[t].pre, k)
             /\ KeySeq(cache') = lru']_vars

\* the least recently used key of a full cache has been inserted again,
\* with another value
C13_Witness ==
    /\ Guarded /\ ~overlapped
    /\ max_items = CacheCapacity
    /\ last.op = "insert"
    /\ Len(last.pre) = max_items
    /\ last.pre[1].key = last.key
    /\ last.pre[1].val # last.val
    /\ Len(cache) = max_items

\* C14: the bodies of get, insert and clear of the guarded cache never
\* overlap, no get misses a key only because another get holds it between
\* its pop and its re-insert, and the cache never exceeds max_items.
C14_MutuallyExclusive ==
    Guarded =>
        /\ ~overlapped
        /\ ~last.torn
        /\ Len(cache) <= max_items


(***************************************************************************)
(* FolderScanner                                                           *)
(***************************************************************************)
RECURSIVE Flat(_)
Flat(ss) == IF ss = <<>> THEN <<>> ELSE Head(ss) \o Flat(Tail(ss))

\* the batches a scanner emitted, and the paths in them
Batches(sc) == SelectSeq(sc.out, LAMBDA o : o.sig = "batch_found")
Delivered(sc) == Flat([j \in 1..Len(Batches(sc)) |-> Batches(sc)[j].paths])

PathsIn(es) == [j \in 1..Len(es) |-> es[j].path]

\* the paths of the files of l the scanner accepts, in enumeration order
Accepted(l) ==
    PathsIn(SelectSeq(l, LAMBDA e : e.is_file /\ e.ext \in valid_exts(variant)))

Readable(l) == SelectSeq(l, LAMBDA e : e.raises = "no")
NoError(l) == Readable(l) = l

CountOf(sc, sig) == Cardinality({j \in 1..Len(sc.out) : sc.out[j].sig = sig})

\* the batches a scanner emitted after stop() was called
AfterStop(sc) ==
    {j \in 1..Len(sc.out) :
        /\ sc.out[j].sig = "batch_found"
        /\ \E k \in 1..(j - 1) : sc.out[k].sig = "stop"}

\* C15: a scan that was not stopped, of a folder that reads without error
\* and holds n accepted files, has emitted ceil(n / 50) batches when it
\* ends: all of 50 paths but the last, which has 1 to 50, and together the
\* n files, each once, in enumeration order.
C15_BatchesOfFifty ==
    \A s \in 1..Len(scanners) :
        LET sc == scanners[s]
            acc == Accepted(listing)
            n == Len(acc)
            bs == Batches(sc)
        IN  (/\ variant # "legacy"
             /\ sc.pc = "done"
             /\ sc.stopped_at = NoneInt
             /\ NoError(listing))
            => /\ Len(bs) = (n + 49) \div 50
               /\ \A j \in 1..Len(bs) :
                     /\ Len(bs[j].paths) \in 1..50
                     /\ j < Len(bs) => Len(bs[j].paths) = 50
               /\ Delivered(sc) = acc

\* the scan of 120 image files among other entries has ended with batches
\* of 50, 50 and 20
C15_Witness ==
    /\ variant # "legacy"
    /\ Len(listing) > MaxFiles
    /\ Len(Accepted(listing)) = MaxFiles
    /\ Len(scanners) = 1
    /\ scanners[1].pc = "done"
    /\ scanners[1].stopped_at = NoneInt
    /\ Len(Batches(scanners[1])) = 3
    /\ Len(Batches(scanners[1])[3].paths) = 20

\* C16: every run of a scanner emits finished exactly once, whether it
\* runs to the end, is stopped or fails, and emits no batch after it: no
\* finished before the run ends, one from then on, no batch behind it, and
\* every started run ends.
C16_FinishedOnceAndLast ==
    /\ [](\A s \in 1..Len(scanners) :
            LET sc == scanners[s] IN
            /\ CountOf(sc, "finished") = IF sc.pc = "done" THEN 1 ELSE 0
            /\ \A j \in 1..Len(sc.out), k \in 1..Len(sc.out) :
                  (j < k /\ sc.out[j].sig = "finished")
                  => sc.out[k].sig # "batch_found")
    /\ (scanners # <<>>) ~> (scanners # <<>> /\ scanners[1].pc = "done")

\* a run that failed on an entry after it had emitted a batch has ended
C16_Witness ==
    /\ Len(scanners) = 1
    /\ scanners[1].pc = "done"
    /\ ~NoError(listing)
    /\ scanners[1].stopped_at = NoneInt
    /\ CountOf(scanners[1], "finished") = 1
    /\ Len(Batches(scanners[1])) >= 1
    /\ scanners[1].out[Len(scanners[1].out)].sig = "finished"

\* C17: after stop() a running scanner takes no further entry from the
\* enumeration, emits at most one more batch (the one it was about to emit
\* when the flag was set), and ends.
C17_StopEndsScan ==
    /\ [](\A s \in 1..Len(scanners) :
            LET sc == scanners[s] IN
            sc.stopped_at # NoneInt
            => /\ sc.i <= sc.stopped_at
               /\ Cardinality(AfterStop(sc)) <= 1)
    /\ (scanners # <<>> /\ ~scanners[1].running)
          ~> (scanners # <<>> /\ scanners[1].pc = "done")

\* a scan stopped in the middle of the folder, while it was about to emit
\* a batch, has ended
C17_Witness ==
    /\ Len(scanners) = 1
    /\ scanners[1].pc = "done"
    /\ scanners[1].stopped_at # NoneInt
    /\ scanners[1].i < Len(listing)
    /\ Cardinality(AfterStop(scanners[1])) = 1
    /\ Len(Delivered(scanners[1])) < Len(Accepted(listing))

\* C20: an entry that cannot be read is skipped and nothing else: when a
\* scan that was not stopped ends, and the enumeration itself did not fail,
\* every accepted file among the readable entries has been delivered.
C20_OnlyBadEntrySkipped ==
    \A s \in 1..Len(scanners) :
        LET sc == scanners[s] IN
        (/\ sc.pc = "done"
         /\ sc.stopped_at = NoneInt
         /\ \A j \in 1..Len(listing) : listing[j].raises # "scandir")
        => Delivered(sc) = Accepted(Readable(listing))


(***************************************************************************)
(* Analysis workers                                                        *)
(***************************************************************************)
\* the paths a worker delivered a result for, in order
ResultsOf(wk) ==
    Flat([j \in 1..Len(SelectSeq(wk.out, LAMBDA o : o.sig = "result")) |->
             SelectSeq(wk.out, LAMBDA o : o.sig = "result")[j].paths])

\* C18: after stop() no path whose analysis had not begun is analysed or
\* delivers a result, and when the worker has ended every path whose
\* analysis had begun has delivered exactly one result (AIWorker of the
\* gemini and chatgpt sections, TitaniumWorker).
C18_StopKeepsStartedResults ==
    \A w \in 1..Len(workers) :
        LET wk == workers[w] IN
        (/\ wk.stopped_at # NoneInt
         /\ wk.kind = "TitaniumWorker" \/ variant # "legacy")
        => /\ wk.i <= wk.stopped_at
           /\ \A j \in 1..Len(ResultsOf(wk)) :
                 ResultsOf(wk)[j] \in Range(SubSeq(wk.paths, 1, wk.stopped_at))
           /\ wk.pc = "done"
                 => ResultsOf(wk) = SubSeq(wk.paths, 1, wk.stopped_at)


\* C19: handle_ai_result for a path that is in no record of image_data
\* ends without error and leaves image_data as it was.
C19_UnknownPathIgnored ==
    [][(/\ ResultStep
        /\ Head(mainq).path \notin PathsOf(image_data))
       => /\ image_data' = image_data
          /\ last_op' = "handle_ai_result"]_vars

\* a result of the run on the former folder has been handled after the
\* reset, when the records of the next folder were merged: none of them
\* has the result's path
C19_Witness ==
    /\ last_op = "handle_ai_result"
    /\ image_data # <<>>
    /\ analysed = {}
    /\ epoch > 1


(***************************************************************************)
(* Folders that cannot be opened                                           *)
(***************************************************************************)
\* C21: load_images of a folder that cannot be enumerated leaves
\* image_data as it was before the call.
C21_BadFolderKeepsRecords ==
    [][\A f \in BadFolders :
          (load_images(f) \/ load_images_refused(f))
          => image_data' = image_data]_vars


(***************************************************************************)
(* Journal and reset                                                       *)
(***************************************************************************)
\* C22 (precondition): neither undo_stack, redo_stack nor the SafetyNet's
\* journal ever holds a batch, before or after a reset, so perform_undo and
\* perform_redo never meet a batch whose record is gone.
C22_NoBatchSurvivesReset ==
    /\ undo_stack = <<>>
    /\ redo_stack = <<>>
    /\ safety_net = <<>>

\* the records lie in the order of their capture times
Ascending(recs) ==
    \A i \in 1..Len(recs) - 1 : getmtime(recs[i].path) <= getmtime(recs[i + 1].path)

\* the gap between the records i and i + 1 is below the threshold T
Close(recs, i, T) ==
    /\ i \in 1..Len(recs) - 1
    /\ Abs(getmtime(recs[i + 1].path) - getmtime(recs[i].path)) < T

\* the record i lies in a run of two or more records whose gaps are below T
InRun(recs, i, T) == Close(recs, i - 1, T) \/ Close(recs, i, T)

HasTag(d, t) == \E j \in 1..Len(d.tags) : d.tags[j] = t

\* C23: burst membership is transitive along the time-ordered records: the
\* records marked as burst, by flag and by #BURST tag, are exactly the
\* records of the runs of two or more shots whose consecutive gaps all lie
\* below the threshold, the first record of each run included.
C23_WholeRunMarked ==
    (~retuned /\ Ascending(shots))
        => \A i \in 1..Len(shots) :
              /\ shots[i].burst_group = InRun(shots, i, burst_time_threshold)
              /\ HasTag(shots[i], "#BURST") = shots[i].burst_group

\* the orders of the paths of recs that follow their capture times
CaptureOrders(recs) ==
    {o \in [1..Len(recs) -> ShotPaths] :
        /\ \A i \in 1..Len(recs) : \E j \in 1..Len(recs) : o[j] = recs[i].path
        /\ \A i \in 1..Len(recs) - 1 : getmtime(o[i]) <= getmtime(o[i + 1])}

\* every path carries the same burst flag and the same #BURST tag in a and b
SameMarks(a, b) ==
    \A i \in 1..Len(a), j \in 1..Len(b) :
        a[i].path = b[j].path
            => /\ a[i].burst_group = b[j].burst_group
               /\ HasTag(a[i], "#BURST") = HasTag(b[j], "#BURST")

\* C24: an apply_settings that keeps the burst logic enabled and changes
\* burst_time_threshold to T' leaves every record with the burst flag and
\* the #BURST tag a fresh ingest of the same records in capture-time order
\* under T' assigns, whatever batches, sorts and threshold changes came
\* before.
C24_RetuneEqualsFreshIngest ==
    [][\A st \in BurstPackets :
          ( /\ burst_settings(st)
            /\ st.enable_burst_ai
            /\ st.burst_time_threshold # burst_time_threshold )
          => \E o \in CaptureOrders(shots') :
                SameMarks(shots', Ingest(<<>>, o, st.burst_time_threshold))]_vars

\* C25: after every operation of the gemini and legacy controllers
\* (on_batch_found, set_filter, apply_decision, on_ai_done after the results,
\* perform_undo, perform_redo, reset, load_images) visible_indices is exactly
\* the increasing list of the indices whose record satisfies filter_state.
C25_VisibleIsFilteredList ==
    (variant \in {"gemini", "legacy"} /\ last_op # "handle_ai_result")
        => visible_indices = RebuiltIndices(variant, filter_state, image_data)

\* the progress events a worker emitted, in order
ProgressOf(wk) == SelectSeq(wk.out, LAMBDA o : o.sig = "progress")

\* C26: a worker of the gemini or chatgpt section, or a TitaniumWorker, over
\* n > 5 paths reports progress at a bounded rate: every progress event
\* carries (completed, total) with 1 <= completed <= total = n, completed
\* grows strictly from one event to the next, and a run that went through
\* all its paths emitted strictly fewer progress events than it analysed
\* items.
C26_ProgressBoundedRate ==
    \A w \in 1..Len(workers) :
        LET wk == workers[w]
            n == Len(wk.paths)
            pr == ProgressOf(wk)
        IN  (n > 5 /\ (wk.kind = "TitaniumWorker" \/ variant # "legacy"))
            => /\ \A j \in 1..Len(pr) :
                     /\ Len(pr[j].paths) = 2
                     /\ 1 <= pr[j].paths[1]
                     /\ pr[j].paths[1] <= pr[j].paths[2]
                     /\ pr[j].paths[2] = n
               /\ \A j \in 1..Len(pr) - 1 :
                     pr[j].paths[1] < pr[j + 1].paths[1]
               /\ (wk.pc = "done" /\ wk.stopped_at = NoneInt)
                     => Len(pr) < wk.i

(***************************************************************************)
(* The path registry                                                       *)
(***************************************************************************)
\* C27: in the gemini controller, whatever batches, resets, folder loads,
\* analysis results, decisions and undos have run, the paths of the
\* records of image_data are pairwise distinct and path_registry is exactly
\* the set of those paths.
C27_RegistryIsPathSet ==
    variant = "gemini"
        => /\ \A i \in 1..Len(image_data), j \in 1..Len(image_data) :
                 image_data[i].path = image_data[j].path => i = j
           /\ path_registry = PathsOf(image_data)

\* the batch of a second scan of the same folder reached on_batch_found
\* after the records of the first had been merged: every path of it was
\* registered already
C27_Witness ==
    /\ variant = "gemini"
    /\ last_op = "on_batch_found"
    /\ epoch = 2
    /\ Len(image_data) = 2
    /\ origin[1] = 1
    /\ Len(scanners) = 2
    /\ scanners[2].folder = "F1"
    /\ scanners[2].pc = "done"
    /\ \A k \in 1..Len(mainq) : mainq[k].type # "batch_found"

C29_MoveStaysInFilter ==
    [][\A delta \in {1, -1} :
          move_index(delta)
          => LET k == IndexOf(visible_indices, current_index) IN
             /\ k # 0
             /\ 0 <= (k - 1) + delta
             /\ (k - 1) + delta < Len(visible_indices)
             /\ current_index' = visible_indices[k + delta]
             /\ current_index' < Len(image_data)
             /\ Matches(variant, filter_state, image_data[current_index' + 1])]_vars

(***************************************************************************)
(* Analysis runs end                                                       *)
(***************************************************************************)
\* every signal the worker w emitted has been handled by the main thread
Handled(w) == \A k \in 1..Len(mainq) : mainq[k].src # w \/ mainq[k].type = "batch_found"

====
